---- MODULE Spec2Model ----
(***************************************************************************)
(* A model of the synthetic project-management data generator:             *)
(* the entity generators (src/generators), the orchestrator (src/main.py)  *)
(* and the SQLite sink (src/database.py).                                   *)
(*                                                                         *)
(* Time is counted in whole seconds.  Day d starts at d * SecondsPerDay,   *)
(* so a datetime is one integer, a date is a day number, and a timedelta   *)
(* is a difference of two integers.                                        *)
(***************************************************************************)
EXTENDS Integers, Sequences, FiniteSets, TLC

(***************************************************************************)
(* Bounds of the model.                                                    *)
(***************************************************************************)
\* The calendar day on which the generators run (datetime.utcnow().date()).
Today == 200
\* Longest list of tasks handed to DependencyGenerator.generate.
MaxTasks == 3
\* Number of distinct project ids among those tasks.
NumProjects == 2

(***************************************************************************)
(* datetime / timedelta arithmetic.                                        *)
(***************************************************************************)
SecondsPerHour == 3600
SecondsPerDay == 24 * SecondsPerHour

\* timedelta(days=d), timedelta(hours=h)
Days(d) == d * SecondsPerDay
Hours(h) == h * SecondsPerHour

\* dt.date(): the day a datetime falls on.
DateOf(dt) == dt \div SecondsPerDay
\* datetime.combine(d, datetime.min.time()): midnight of day d.
Midnight(d) == d * SecondsPerDay
\* (a - b).days: timedelta normalises to days + a non-negative remainder,
\* so .days is the floor of the difference.
DaysBetween(a, b) == (a - b) \div SecondsPerDay
\* dt.replace(hour=h, minute=m, second=0, microsecond=0)
ReplaceTime(dt, h, m) == Midnight(DateOf(dt)) + Hours(h) + m * 60

Max2(a, b) == IF a >= b THEN a ELSE b
Min2(a, b) == IF a <= b THEN a ELSE b

\* The values of random.randint(lo, hi) the model explores: both ends and
\* the middle of the range.
RandInt(lo, hi) == {lo, (lo + hi) \div 2, hi}
\* The same for a draw of an hour of the day, a minute, or a hiring day:
\* both ends of the range.
RandEnds(lo, hi) == {lo, hi}

VARIABLES
    now,               \* datetime.utcnow() as the running generator reads it
    \* ---- DependencyGenerator.generate ----
    tasks,             \* the list of Task objects passed in
    tasks_by_project,  \* project_id -> its tasks, sorted by created_at
    project_order,     \* iteration order of tasks_by_project.items()
    dep_pc,            \* "start", "loop", "done"
    dep_cursor,        \* <<index into project_order, index i of the inner loop>>
    existing_deps,     \* set of (dependent_task_id, blocker_task_id) keys
    dependencies,      \* the list being returned
    \* ---- entity generators ----
    organization,      \* the Organization: [created_at]
    team,              \* the Team whose projects are being generated
    user,              \* the User picked as assignee (random.choice(team_users))
    project,           \* the Project built by the current loop iteration
    gen_pc,            \* where the running generator's loop stands
    task,              \* the Task built by the current loop iteration
    completion,        \* arguments and result of one _sample_completed_at call
    \* ---- DataGenerationPipeline.run and DatabaseManager ----
    missing_inputs,    \* research files, keys and tables absent from research/
    pipe_pc,           \* where run stands
    stage_cursor,      \* <<index into Stages, index into the stage's tables>>
    collections,       \* table -> len of the list generated for it, or None
    self_db,           \* self.db is set (create_database has returned)
    connection,        \* DatabaseManager.connection: "none", "open", "closed"
    transaction,       \* the open transaction of insert_batch, if any
    db_tables,         \* table -> rows of this run the connection sees
    fk_check,          \* what validate_foreign_keys found
    error,             \* the exception travelling up, if any
    outcome,           \* "running", "completed" or "failed", as logged
    \* ---- Comment, Attachment, CustomFieldValue and TaskTag generators ----
    child,             \* the child record of `task` built by the current iteration
    \* ---- SectionGenerator.generate ----
    sec_projects,      \* the list of Project objects passed in
    sec_pc,            \* "idle", "loop", "built", "done"
    sec_cursor,        \* <<index into sec_projects, index into section_names>>
    section,           \* the Section built by the current iteration
    sections,          \* the list being returned: project_id and position
    \* ---- TeamMembershipGenerator.generate ----
    mem_teams,         \* the list of Team objects passed in
    mem_users,         \* the list of User objects passed in
    users_by_dept,     \* department -> its users, in list order
    user_team_assignments, \* user_id -> set of team_ids
    mem_pc,            \* "idle", "teams", "members", "member_built", "done"
    mem_cursor,        \* <<index into mem_teams, index into selected_users>>
    selected_users,    \* the users picked for the current team
    membership,        \* the TeamMembership built by the current iteration
    memberships,       \* the list being returned: team_id, user_id and role
    \* ---- TaskTagGenerator.generate ----
    tt_tasks,          \* the list of Task objects passed in
    tt_tags,           \* the list of Tag objects passed in
    tt_pc,             \* "idle", "start", "loop", "done"
    tt_cursor,         \* index into tt_tasks
    task_tags,          \* the list being returned: task_id and tag_id
    \* ---- TagGenerator.generate ----
    org_tag,            \* the Tag built by the current iteration
    \* CustomFieldGenerator (generators/custom_fields.py): the projects, teams
    \* and tasks handed to generate, the generator's table of candidate fields
    \* per project type, the lists being built, and the position of the loops.
    cf_projects,
    cf_teams,
    cf_tasks,
    fields_by_project_type,
    cf_pc,
    cf_cursor,
    definitions,
    enum_options,
    field_to_options,
    cf_values,
    \* ---- AttachmentGenerator.generate ----
    att_tasks,         \* the list of Task objects passed in
    att_users,         \* the list of User objects passed in
    att_pc,            \* "idle", "start", "loop", "done"
    att_cursor,        \* index into att_tasks
    attachments,        \* the list being returned: task_id and uploaded_by
    \* ---- TaskGenerator.generate: the section a task is put in ----
    tg_projects,       \* the list of Project objects passed in
    tg_sections,       \* the list of Section objects passed in
    tasks_per_project, \* total_tasks // len(active_projects)
    tg_pc,             \* "idle", "loop", "built", "done"
    tg_cursor,         \* <<index into active_projects, tasks built for it>>
    placed             \* the Task built by the current iteration

depVars == <<tasks, tasks_by_project, project_order, dep_pc, dep_cursor,
             existing_deps, dependencies>>
genVars == <<organization, team, user, project, gen_pc, task, completion>>
pipeVars == <<missing_inputs, pipe_pc, stage_cursor, collections, self_db,
              connection, transaction, db_tables, fk_check, error, outcome>>
childVars == <<child>>
secVars == <<sec_projects, sec_pc, sec_cursor, section, sections>>
memVars == <<mem_teams, mem_users, users_by_dept, user_team_assignments, mem_pc,
             mem_cursor, selected_users, membership, memberships>>
ttVars == <<tt_tasks, tt_tags, tt_pc, tt_cursor, task_tags>>
tagVars == <<org_tag>>
cfVars == <<cf_projects, cf_teams, cf_tasks, fields_by_project_type, cf_pc,
           cf_cursor, definitions, enum_options, field_to_options, cf_values>>
attVars == <<att_tasks, att_users, att_pc, att_cursor, attachments>>
placeVars == <<tg_projects, tg_sections, tasks_per_project, tg_pc, tg_cursor, placed>>
relVars == <<secVars, memVars, ttVars, tagVars, cfVars, attVars, placeVars>>
vars == <<now, depVars, genVars, pipeVars, childVars, relVars>>

\* Python's None, for an Optional[datetime] or Optional[date] field.
None == -1

\* utcnow() readings the model starts from and ticks through: before
\* business hours, at midday, and in the evening of Today.
NowChoices ==
    {Midnight(Today) + 20 * 60,
     Midnight(Today) + Hours(12),
     Midnight(Today) + Hours(18) + 30 * 60 + 7}

\* Every generator takes a fresh datetime.utcnow(); the clock only moves on.
Tick ==
    /\ \E later \in NowChoices : later > now /\ now' = later
    /\ UNCHANGED <<depVars, genVars, pipeVars, childVars, relVars>>

\* UNION of F over S: the results of a sampler applied to each value of S.
Bind(S, F(_)) == UNION {F(x) : x \in S}

DepsIdle ==
    /\ tasks = <<>>
    /\ tasks_by_project = <<>>
    /\ project_order = <<>>
    /\ dep_pc = "idle"
    /\ dep_cursor = <<1, 1>>
    /\ existing_deps = {}
    /\ dependencies = <<>>

NoEntity == [created_at |-> None]
NoProject == [created_at |-> None, start_date |-> None, due_date |-> None,
              status |-> "none", completed_at |-> None]
NoTask == [created_at |-> None, due_date |-> None, start_date |-> None,
           completed |-> FALSE, completed_at |-> None, modified_at |-> None,
           created_by |-> None]
NoCall == [created_at |-> None, due_date |-> None, status |-> "none",
           completed_at |-> None]

GenIdle ==
    /\ organization = NoEntity
    /\ team = NoEntity
    /\ user = NoEntity
    /\ project = NoProject
    /\ gen_pc = "idle"
    /\ task = NoTask
    /\ completion = NoCall

\* The twelve generation stages of DataGenerationPipeline.run, in the order
\* of main.py.
Stages ==
    <<"organization", "users", "teams", "projects", "sections", "tags", "tasks",
      "dependencies", "comments", "attachments", "custom_fields", "task_tags">>

\* The tables a stage hands to insert_models, in the order of the calls.
StageTables(stage) ==
    CASE stage = "organization" -> <<"organizations">>
      [] stage = "dependencies" -> <<"task_dependencies">>
      [] stage = "custom_fields" -> <<"custom_field_definitions",
                                      "custom_field_enum_options",
                                      "custom_field_values">>
      [] OTHER -> <<stage>>

StageTableSet(stage) ==
    {StageTables(stage)[j] : j \in 1..Len(StageTables(stage))}

Tables == UNION {StageTableSet(Stages[k]) : k \in 1..Len(Stages)}

NoTransaction == [table |-> "none", total_inserted |-> 0]
NoError == [kind |-> "none", stage |-> "none"]

\* No child record built yet.
NoChild == [kind |-> "none", created_at |-> None, referenced_created_at |-> None]

ChildIdle == child = NoChild

\* No section built yet.
NoSection == [project_id |-> 0, position |-> None, created_at |-> None]

SecIdle ==
    /\ sec_projects = <<>>
    /\ sec_pc = "idle"
    /\ sec_cursor = <<1, 1>>
    /\ section = NoSection
    /\ sections = <<>>

\* No membership built yet.
NoMembership == [team_id |-> 0, user_id |-> 0, role |-> "none", joined_at |-> None]

MemIdle ==
    /\ mem_teams = <<>>
    /\ mem_users = <<>>
    /\ users_by_dept = <<>>
    /\ user_team_assignments = <<>>
    /\ mem_pc = "idle"
    /\ mem_cursor = <<1, 1>>
    /\ selected_users = <<>>
    /\ membership = NoMembership
    /\ memberships = <<>>

TtIdle ==
    /\ tt_tasks = <<>>
    /\ tt_tags = <<>>
    /\ tt_pc = "idle"
    /\ tt_cursor = 1
    /\ task_tags = <<>>

TagIdle == org_tag = NoEntity

\* A field template: its name, its type and the number of options it offers
\* (zero for the types that have none).
Field(name, field_type, options) ==
    [name |-> name, field_type |-> field_type, options |-> options]

common_fields ==
    << Field("Status", "enum", 4), Field("Priority", "enum", 4),
       Field("Effort", "enum", 4) >>

engineering_fields ==
    << Field("Story Points", "number", 0), Field("Sprint", "text", 0),
       Field("Environment", "enum", 3), Field("Component", "enum", 5),
       Field("Bug Severity", "enum", 4) >>

marketing_fields ==
    << Field("Campaign Type", "enum", 5), Field("Channel", "enum", 6),
       Field("Budget", "number", 0), Field("Target Audience", "enum", 5) >>

sales_fields ==
    << Field("Deal Stage", "enum", 6), Field("Deal Value", "number", 0),
       Field("Account Tier", "enum", 3), Field("Lead Source", "enum", 5) >>

product_fields ==
    << Field("Feature Area", "enum", 5), Field("User Impact", "enum", 3),
       Field("Release", "text", 0) >>

design_fields ==
    << Field("Design Phase", "enum", 5), Field("Design Type", "enum", 5) >>

\* The table the constructor builds: the candidate fields of each known
\* project type.  Each entry is a list of its own.
FieldsByProjectTypeAsConstructed ==
    [ sprint       |-> common_fields \o SubSeq(engineering_fields, 1, 3),
      bug_tracking |-> common_fields \o << engineering_fields[5] >>,
      campaign     |-> common_fields \o marketing_fields,
      roadmap      |-> common_fields \o product_fields,
      ongoing      |-> SubSeq(common_fields, 1, 2) ]

\* No custom-field generation is in progress: the generator is as constructed.
CfIdle ==
    /\ cf_projects = <<>>
    /\ cf_teams = <<>>
    /\ cf_tasks = <<>>
    /\ fields_by_project_type = FieldsByProjectTypeAsConstructed
    /\ cf_pc = "idle"
    /\ cf_cursor = 0
    /\ definitions = <<>>
    /\ enum_options = <<>>
    /\ field_to_options = <<>>
    /\ cf_values = <<>>

\* No attachment generation is in progress.
AttIdle ==
    /\ att_tasks = <<>>
    /\ att_users = <<>>
    /\ att_pc = "idle"
    /\ att_cursor = 0
    /\ attachments = <<>>

\* No task built yet.
NoPlaced == [project_id |-> 0, section_id |-> 0]

PlaceIdle ==
    /\ tg_projects = <<>>
    /\ tg_sections = <<>>
    /\ tasks_per_project = 0
    /\ tg_pc = "idle"
    /\ tg_cursor = <<1, 0>>
    /\ placed = NoPlaced

RelIdle == SecIdle /\ MemIdle /\ TtIdle /\ TagIdle /\ CfIdle /\ AttIdle /\ PlaceIdle

PipeIdle ==
    /\ missing_inputs = {}
    /\ pipe_pc = "idle"
    /\ stage_cursor = <<1, 1>>
    /\ collections = [t \in Tables |-> None]
    /\ self_db = FALSE
    /\ connection = "none"
    /\ transaction = NoTransaction
    /\ db_tables = [t \in Tables |-> 0]
    /\ fk_check = "not_run"
    /\ error = NoError
    /\ outcome = "running"

(***************************************************************************)
(* DependencyGenerator (src/generators/dependencies.py)                    *)
(***************************************************************************)
ProjectIds == 1..NumProjects

\* created_at values of the tasks handed in: all at or before now, with ties.
TaskCreatedAtChoices == {now - Days(2), now - Hours(2), now}

\* The list left in the order it was handed in.
SortSkipped(s) == s

\* list.sort(key=lambda t: t.created_at): a stable sort, equal keys keep
\* their order in the list.
RECURSIVE SortByCreatedAt(_)
SortByCreatedAt(s) ==
    IF s = <<>> THEN <<>>
    ELSE LET front == SortByCreatedAt(SubSeq(s, 1, Len(s) - 1))
             x == s[Len(s)]
             k == Cardinality({j \in 1..Len(front) :
                                 front[j].created_at <= x.created_at})
         IN SubSeq(front, 1, k) \o <<x>> \o SubSeq(front, k + 1, Len(front))

\* tasks_by_project[project_id].append(task), in list order.
GroupByProject(ts) ==
    [p \in ProjectIds |-> SelectSeq(ts, LAMBDA t : t.project_id = p)]

\* Keys of the defaultdict in insertion order: projects by first appearance.
RECURSIVE ProjectOrder(_)
ProjectOrder(ts) ==
    IF ts = <<>> THEN <<>>
    ELSE LET front == ProjectOrder(SubSeq(ts, 1, Len(ts) - 1))
             p == ts[Len(ts)].project_id
         IN IF \E j \in 1..Len(front) : front[j] = p THEN front
            ELSE Append(front, p)

\* A slice that runs one element too far and takes in the dependent task.
PotentialBlockersThroughSelf(project_tasks, i) == SubSeq(project_tasks, 1, i)

\* potential_blockers = project_tasks[:i], with i the 0-based position of
\* the dependent task; here i is 1-based.
PotentialBlockers(project_tasks, i) == SubSeq(project_tasks, 1, i - 1)

\* _sample_num_dependencies drawing from one to four.
SampleNumDependenciesUpToFour == {1, 2, 3, 4}

\* _sample_num_dependencies: random.choices([1, 2, 3], ...)
SampleNumDependencies == {1, 2, 3}

\* random.sample(population, k): k distinct positions, in any order.
RandomSample(population, k) ==
    {[j \in 1..k |-> population[idx[j]]] :
        idx \in {f \in [1..k -> 1..Len(population)] :
                    \A a, b \in 1..k : a # b => f[a] # f[b]}}

\* The draws of random.randint(1, 24) for the blockers of one task that the
\* model explores: all at the same end of the range.
HourDraws(num_deps) == {[j \in 1..num_deps |-> h] : h \in RandEnds(1, 24)}

\* The body of "for blocker_task in blocker_tasks" (lines 97-113), run over
\* the whole sample; hrs[j] is the random.randint(1, 24) of the j-th blocker.
RECURSIVE CreateDependencies(_, _, _, _, _)
CreateDependencies(dependent_task, blocker_tasks, hrs, seen, deps) ==
    IF blocker_tasks = <<>> THEN [seen |-> seen, deps |-> deps]
    ELSE LET blocker_task == Head(blocker_tasks)
             dep_key == <<dependent_task.task_id, blocker_task.task_id>>
         IN IF dep_key \in seen
            THEN CreateDependencies(dependent_task, Tail(blocker_tasks),
                                    Tail(hrs), seen, deps)
            ELSE CreateDependencies(
                    dependent_task, Tail(blocker_tasks), Tail(hrs),
                    seen \cup {dep_key},
                    Append(deps,
                           [dependency_id |-> Len(deps) + 1,
                            dependent_task_id |-> dependent_task.task_id,
                            dependency_task_id |-> blocker_task.task_id,
                            created_at |-> dependent_task.created_at
                                             + Hours(Head(hrs))]))

\* Lines 58-71: group, sort every project's list, start with empty results.
DepGroupAndSort ==
    /\ dep_pc = "start"
    /\ tasks_by_project' = [p \in ProjectIds |->
                              SortByCreatedAt(GroupByProject(tasks)[p])]
    /\ project_order' = ProjectOrder(tasks)
    /\ dependencies' = <<>>
    /\ existing_deps' = {}
    /\ dep_cursor' = <<1, 1>>
    /\ dep_pc' = "loop"
    /\ UNCHANGED <<now, pipeVars, childVars, relVars, tasks,
                   genVars>>

CurrentProjectTasks == tasks_by_project[project_order[dep_cursor[1]]]

\* Lines 74-75: a project with fewer than two tasks is skipped.
DepSkipProject ==
    /\ dep_pc = "loop"
    /\ dep_cursor[1] <= Len(project_order)
    /\ Len(CurrentProjectTasks) < 2
    /\ dep_cursor' = <<dep_cursor[1] + 1, 1>>
    /\ UNCHANGED <<now, pipeVars, childVars, relVars, tasks, tasks_by_project, project_order, dep_pc,
                   existing_deps, dependencies,
                   genVars>>

\* The inner loop ran off the end of the project's list: next project.
DepNextProject ==
    /\ dep_pc = "loop"
    /\ dep_cursor[1] <= Len(project_order)
    /\ Len(CurrentProjectTasks) >= 2
    /\ dep_cursor[2] > Len(CurrentProjectTasks)
    /\ dep_cursor' = <<dep_cursor[1] + 1, 1>>
    /\ UNCHANGED <<now, pipeVars, childVars, relVars, tasks, tasks_by_project, project_order, dep_pc,
                   existing_deps, dependencies,
                   genVars>>

\* Lines 77-113: one iteration of "for i, dependent_task in enumerate(...)".
DepVisitTask ==
    /\ dep_pc = "loop"
    /\ dep_cursor[1] <= Len(project_order)
    /\ Len(CurrentProjectTasks) >= 2
    /\ dep_cursor[2] <= Len(CurrentProjectTasks)
    /\ LET i == dep_cursor[2]
           dependent_task == CurrentProjectTasks[i]
           potential_blockers == PotentialBlockers(CurrentProjectTasks, i)
       IN \E should_have \in BOOLEAN :
            IF ~should_have \/ potential_blockers = <<>>
            THEN UNCHANGED <<existing_deps, dependencies>>
            ELSE \E n \in SampleNumDependencies :
                   LET num_deps == Min2(n, Len(potential_blockers))
                   IN \E blocker_tasks \in RandomSample(potential_blockers, num_deps) :
                        \E hrs \in HourDraws(num_deps) :
                          LET r == CreateDependencies(dependent_task, blocker_tasks,
                                                      hrs, existing_deps, dependencies)
                          IN /\ existing_deps' = r.seen
                             /\ dependencies' = r.deps
    /\ dep_cursor' = <<dep_cursor[1], dep_cursor[2] + 1>>
    /\ UNCHANGED <<now, pipeVars, childVars, relVars, tasks, tasks_by_project, project_order, dep_pc,
                   genVars>>

\* Line 118: every project was visited; return dependencies.
DepReturn ==
    /\ dep_pc = "loop"
    /\ dep_cursor[1] > Len(project_order)
    /\ dep_pc' = "done"
    /\ UNCHANGED <<now, pipeVars, childVars, relVars, tasks, tasks_by_project, project_order, dep_cursor,
                   existing_deps, dependencies,
                   genVars>>

TaskLists ==
    UNION {[1..n -> [task_id : {0}, project_id : ProjectIds,
                     created_at : TaskCreatedAtChoices]] : n \in 1..MaxTasks}

\* The caller's list: distinct task ids (a task's id is its place in the list).
InitDeps ==
    /\ now = Midnight(Today) + Hours(12)
    /\ tasks \in {[j \in 1..Len(ts) |-> [ts[j] EXCEPT !.task_id = j]] : ts \in TaskLists}
    /\ tasks_by_project = [p \in ProjectIds |-> <<>>]
    /\ project_order = <<>>
    /\ dep_pc = "start"
    /\ dep_cursor = <<1, 1>>
    /\ existing_deps = {}
    /\ dependencies = <<>>
    /\ GenIdle
    /\ PipeIdle
    /\ ChildIdle
    /\ RelIdle

NextDeps ==
    \/ DepGroupAndSort
    \/ DepSkipProject
    \/ DepNextProject
    \/ DepVisitTask
    \/ DepReturn

SpecDeps == InitDeps /\ [][NextDeps]_vars

(***************************************************************************)
(* Claims about DependencyGenerator.generate                               *)
(***************************************************************************)
TaskIds == {tasks[j].task_id : j \in 1..Len(tasks)}
TaskById(id) == CHOOSE t \in {tasks[j] : j \in 1..Len(tasks)} : t.task_id = id

\* The edges dependent_task_id -> dependency_task_id of the records so far.
DependencyEdges ==
    {<<dependencies[j].dependent_task_id, dependencies[j].dependency_task_id>> :
        j \in 1..Len(dependencies)}

\* R joined with itself n times: every path of up to 2^n edges.
RECURSIVE PathsWithin(_, _)
PathsWithin(R, n) ==
    IF n = 0 THEN R
    ELSE PathsWithin(R \cup {<<g[1][1], g[2][2]>> :
                            g \in {h \in R \X R : h[1][2] = h[2][1]}}, n - 1)

Reachability == PathsWithin(DependencyEdges, MaxTasks + 1)

\* C1: the graph of the returned records has no cycle of any length, and in
\* particular no record whose dependent task is its own blocker.
C1_DependencyGraphAcyclic ==
    /\ \A t \in TaskIds : <<t, t>> \notin Reachability
    /\ \A j \in 1..Len(dependencies) :
          dependencies[j].dependent_task_id # dependencies[j].dependency_task_id

\* A finished run whose records form a chain a -> b -> c over tasks with
\* tied created_at values.
C1_Witness ==
    /\ dep_pc = "done"
    /\ \E a, b \in 1..Len(dependencies) :
          /\ dependencies[a].dependency_task_id = dependencies[b].dependent_task_id
          /\ TaskById(dependencies[a].dependent_task_id).created_at
               = TaskById(dependencies[b].dependency_task_id).created_at

\* C2: the blocker of every record was created no later than its dependent.
C2_BlockerCreatedFirst ==
    \A j \in 1..Len(dependencies) :
        TaskById(dependencies[j].dependency_task_id).created_at
          <= TaskById(dependencies[j].dependent_task_id).created_at

\* A finished run with a record whose blocker came later in the caller's
\* list than its dependent and was created strictly earlier: the sort
\* decided it.
C2_Witness ==
    /\ dep_pc = "done"
    /\ \E j \in 1..Len(dependencies) :
          /\ dependencies[j].dependency_task_id > dependencies[j].dependent_task_id
          /\ TaskById(dependencies[j].dependency_task_id).created_at
               < TaskById(dependencies[j].dependent_task_id).created_at

(***************************************************************************)
(* OrganizationGenerator, UserGenerator, TeamGenerator                     *)
(***************************************************************************)
\* days_since_org = 180: the six months the simulation covers.
days_since_org == 180

\* OrganizationGenerator._get_base_timestamp: six months ago, at 08:00.
GetBaseTimestamp(nw) == ReplaceTime(nw - Days(days_since_org), 8, 0)

\* The same for a progress that can reach 1.
HiringDayOffsetsThroughToday == RandEnds(0, days_since_org)

\* int(progress * days_since_org) for a beta-distributed progress in (0, 1).
HiringDayOffsets == RandEnds(0, days_since_org - 1)

\* UserGenerator._sample_created_at: a day of the six months, at 08:00-17:00.
UserSampleCreatedAt(org_created_at) ==
    {ReplaceTime(org_created_at + Days(days_offset), hour, 0) :
        days_offset \in HiringDayOffsets, hour \in RandEnds(8, 17)}

\* TeamGenerator._sample_created_at: the same shape as the user's.
TeamSampleCreatedAt(org_created_at) ==
    {ReplaceTime(org_created_at + Days(days_offset), hour, 0) :
        days_offset \in HiringDayOffsets, hour \in RandEnds(8, 17)}

(***************************************************************************)
(* ProjectGenerator (src/generators/projects.py)                           *)
(***************************************************************************)
\* duration_days_range of the five templates of _create_fallback_templates.
TemplateDurationRanges ==
    {<<10, 21>>, <<60, 365>>, <<30, 180>>, <<30, 90>>, <<90, 365>>}

ProjectStatuses == {"active", "completed", "archived", "on_hold"}

\* _sample_project_dates: <<start_date, due_date>>.
SampleProjectDates(org_created_at, team_created_at, nw) ==
    LET earliest == Max2(org_created_at, team_created_at)
        days_since_earliest == DaysBetween(nw, earliest)
    IN {<<DateOf(earliest + Days(start_offset)),
          DateOf(earliest + Days(start_offset)) + duration>> :
           start_offset \in RandInt(0, Max2(1, days_since_earliest)),
           duration \in UNION {RandEnds(r[1], r[2]) : r \in TemplateDurationRanges}}

\* Lines 309-321: on time (70%) or late (30%).
ProjectCompletedRaw(start_date, due_date) ==
    LET start_dt == Midnight(start_date)
        due_dt == Midnight(due_date)
        total_days == DaysBetween(due_dt, start_dt)
        on_time == {start_dt + Days(completion_offset) :
                      completion_offset \in
                        IF total_days > 0 THEN RandInt(total_days \div 2, total_days)
                        ELSE {0}}
        late == {due_dt + Days(overrun_days) :
                   overrun_days \in RandInt(1, Max2(1, total_days \div 2))}
    IN on_time \cup late

\* Lines 323-332: "Ensure not in future".
ProjectCompletedNotFuture(completed_at, start_date, nw) ==
    IF completed_at > nw
    THEN LET days_available == DaysBetween(nw, Midnight(start_date))
         IN IF days_available > 0
            THEN {Midnight(start_date) + Days(completion_offset) :
                    completion_offset \in RandInt(0, days_available)}
            ELSE {nw - Hours(h) : h \in RandInt(1, 48)}
    ELSE {completed_at}

\* Lines 334-336: a business hour, minute 0.
ProjectCompletedAddHour(completed_at) ==
    {ReplaceTime(completed_at, hour, 0) : hour \in RandEnds(8, 17)}

\* Lines 338-343: never on a day before start_date.
ProjectCompletedAfterStart(completed_at, start_date) ==
    IF DateOf(completed_at) < start_date
    THEN {ReplaceTime(Midnight(start_date), hour, 0) : hour \in RandEnds(8, 17)}
    ELSE {completed_at}

\* Lines 345-348: pushed back 1-48 hours when still in the future.
ProjectCompletedBeforeNow(completed_at, nw) ==
    IF completed_at > nw
    THEN {ReplaceTime(nw - Hours(h), hour, 0) :
            h \in RandInt(1, 48), hour \in RandEnds(8, 17)}
    ELSE {completed_at}

\* _sample_completed_at with a status test that lets only 'completed' through.
ProjectSampleCompletedAtCompletedOnly(start_date, due_date, status, nw) ==
    IF status # "completed" THEN {None}
    ELSE LET s1 == ProjectCompletedRaw(start_date, due_date)
             s2 == Bind(s1, LAMBDA c : ProjectCompletedNotFuture(c, start_date, nw))
             s3 == Bind(s2, ProjectCompletedAddHour)
             s4 == Bind(s3, LAMBDA c : ProjectCompletedAfterStart(c, start_date))
         IN Bind(s4, LAMBDA c : ProjectCompletedBeforeNow(c, nw))

\* ProjectGenerator._sample_completed_at
ProjectSampleCompletedAt(start_date, due_date, status, nw) ==
    IF status \notin {"completed", "archived"} THEN {None}
    ELSE LET s1 == ProjectCompletedRaw(start_date, due_date)
             s2 == Bind(s1, LAMBDA c : ProjectCompletedNotFuture(c, start_date, nw))
             s3 == Bind(s2, ProjectCompletedAddHour)
             s4 == Bind(s3, LAMBDA c : ProjectCompletedAfterStart(c, start_date))
         IN Bind(s4, LAMBDA c : ProjectCompletedBeforeNow(c, nw))

\* ProjectGenerator._sample_created_at: 0-14 days before start_date, at
\* 08:00-17:00.
ProjectSampleCreatedAt(start_date) ==
    {ReplaceTime(Midnight(start_date) - Days(days_before), hour, 0) :
        days_before \in RandInt(0, 14), hour \in RandEnds(8, 17)}

\* generate_organization: the organization of the run.
GenerateOrganization ==
    /\ gen_pc = "organization"
    /\ organization' = [created_at |-> GetBaseTimestamp(now)]
    /\ gen_pc' = "teams"
    /\ UNCHANGED <<now, depVars, pipeVars, childVars, relVars, team, user, project, task, completion>>

\* TeamGenerator.generate: one team.
GenerateTeam ==
    /\ gen_pc = "teams"
    /\ \E created_at \in TeamSampleCreatedAt(organization.created_at) :
         team' = [created_at |-> created_at]
    /\ gen_pc' = "projects"
    /\ UNCHANGED <<now, depVars, pipeVars, childVars, relVars, organization, user, project, task, completion>>

\* ProjectGenerator.generate, lines 395-446: one project of the team.
GenerateProject ==
    /\ gen_pc = "projects"
    /\ \E dates \in SampleProjectDates(organization.created_at, team.created_at, now) :
         \E status \in ProjectStatuses :
           \E completed_at \in ProjectSampleCompletedAt(dates[1], dates[2], status, now) :
             \E created_at \in ProjectSampleCreatedAt(dates[1]) :
               project' = [created_at |-> created_at, start_date |-> dates[1],
                           due_date |-> dates[2], status |-> status,
                           completed_at |-> completed_at]
    /\ gen_pc' = "project_built"
    /\ UNCHANGED <<now, depVars, pipeVars, childVars, relVars, organization, team, user, task, completion>>

\* projects.append(project), and on to the next iteration.
AppendProject ==
    /\ gen_pc = "project_built"
    /\ project' = NoProject
    /\ gen_pc' = "projects"
    /\ UNCHANGED <<now, depVars, pipeVars, childVars, relVars, organization, team, user, task, completion>>

InitProjects ==
    /\ now \in NowChoices
    /\ DepsIdle
    /\ PipeIdle
    /\ ChildIdle
    /\ RelIdle
    /\ organization = NoEntity
    /\ team = NoEntity
    /\ user = NoEntity
    /\ project = NoProject
    /\ gen_pc = "organization"
    /\ task = NoTask
    /\ completion = NoCall

NextProjects ==
    \/ GenerateOrganization
    \/ GenerateTeam
    \/ GenerateProject
    \/ AppendProject
    \/ Tick

SpecProjects == InitProjects /\ [][NextProjects]_vars

\* C7: a project is timestamped no earlier than its organization and its
\* owning team, and not in the future:
\* organization.created_at <= team.created_at <= project.created_at <= now.
C7_ProjectAfterTeamAndOrg ==
    gen_pc = "project_built" =>
        /\ organization.created_at <= team.created_at
        /\ team.created_at <= project.created_at
        /\ project.created_at <= now

(***************************************************************************)
(* TaskGenerator (src/generators/tasks.py)                                 *)
(***************************************************************************)
\* _sample_status returns one of these whatever the priority and age.
TaskStatuses == {"completed", "in_progress", "not_started"}

\* Lines 249-263 with the upper clamps left out.
TaskCreatedAtClampLowerOnly(created_at, earliest, nw) ==
    {IF created_at < earliest THEN earliest ELSE created_at}

\* Lines 249-263, the "absolute final constraints" of _sample_created_at.
TaskCreatedAtClamp(created_at, earliest, nw) ==
    LET c1 == IF created_at < earliest THEN earliest ELSE created_at
        c2s == IF c1 > nw THEN {nw - Hours(h) : h \in RandInt(1, 48)} ELSE {c1}
    IN {IF c2 > nw THEN nw - Hours(1) ELSE c2 : c2 \in c2s}

\* Lines 227-263: from the (possibly corrected) earliest to the result.
TaskCreatedAtFrom(earliest, nw) ==
    LET days_available == DaysBetween(nw, earliest)
        days_offsets == IF days_available > 0 THEN RandInt(0, days_available)
                        ELSE {0}
        raw == {ReplaceTime(earliest + Days(days_offset), hour, minute) :
                  days_offset \in days_offsets,
                  hour \in RandEnds(8, 20), minute \in RandEnds(0, 59)}
    IN Bind(raw, LAMBDA c : TaskCreatedAtClamp(c, earliest, nw))

\* TaskGenerator._sample_created_at
TaskSampleCreatedAt(project_created_at, assignee_created_at, nw) ==
    LET earliest == Max2(project_created_at, assignee_created_at)
        earliests == IF earliest > nw
                     THEN {nw - Days(d) : d \in RandInt(1, 30)}
                     ELSE {earliest}
    IN Bind(earliests, LAMBDA e : TaskCreatedAtFrom(e, nw))

\* _sample_task_duration: max(1, int(triangular(1, 30, 5.3))).
TaskDurations == RandInt(1, 30)

\* TaskGenerator._sample_due_date: None, or created_at + duration as a date.
TaskSampleDueDate(created_at) ==
    {None} \cup {DateOf(created_at + Days(duration_days)) :
                   duration_days \in TaskDurations}

\* Lines 301-321: on time, overdue, or no due date.
TaskCompletedRaw(created_at, due_date) ==
    IF due_date # None
    THEN LET due_datetime == Midnight(due_date)
             days_available == DaysBetween(due_datetime, created_at)
             on_time == {created_at + Days(completion_offset) :
                           completion_offset \in
                             IF days_available > 0 THEN RandInt(0, days_available)
                             ELSE {0}}
             overdue == {due_datetime + Days(overdue_days) :
                           overdue_days \in RandInt(1, 14)}
         IN on_time \cup overdue
    ELSE {created_at + Days(completion_offset) :
            completion_offset \in RandInt(1, 30)}

\* Lines 323-330: "Ensure not in future".
TaskCompletedNotFuture(completed_at, created_at, nw) ==
    IF completed_at > nw
    THEN LET days_available == DaysBetween(nw, created_at)
         IN IF days_available > 0
            THEN {created_at + Days(completion_offset) :
                    completion_offset \in RandInt(0, days_available)}
            ELSE {nw - Hours(h) : h \in RandInt(1, 48)}
    ELSE {completed_at}

\* Lines 332-335: a random hour 8-20 and minute.
TaskCompletedAddHour(completed_at) ==
    {ReplaceTime(completed_at, hour, minute) :
        hour \in RandEnds(8, 20), minute \in RandEnds(0, 59)}

\* Lines 337-340: forced after created_at.
TaskCompletedAfterCreated(completed_at, created_at) ==
    IF completed_at < created_at
    THEN {created_at + Hours(h) : h \in RandInt(1, 24)}
    ELSE {completed_at}

\* Lines 342-357: brought back between created_at and now.
TaskCompletedBeforeNow(completed_at, created_at, nw) ==
    IF completed_at > nw
    THEN IF nw > created_at
         THEN LET total_seconds == nw - created_at
              IN IF total_seconds > SecondsPerHour
                 THEN {created_at + offset_seconds :
                         offset_seconds \in RandInt(SecondsPerHour, total_seconds)}
                 ELSE {created_at + total_seconds \div 2}
         ELSE {nw}
    ELSE {completed_at}

\* Lines 359-363: the last two sanity checks.
TaskCompletedSanity(completed_at, created_at, nw) ==
    LET c1 == IF completed_at < created_at THEN created_at + 1 ELSE completed_at
    IN IF c1 > nw THEN nw ELSE c1

\* The status test reading "not started" where it should read "not completed".
TaskCompletionForStarted(status) == status # "not_started"

\* Line 296: only a task of status 'completed' gets a completed_at.
TaskGetsCompletion(status) == status = "completed"

\* Lines 301-335 only: the "absolute final" checks of lines 337-363 left out.
TaskSampleCompletedAtUnclamped(created_at, due_date, status, nw) ==
    IF status # "completed" THEN {None}
    ELSE LET s1 == TaskCompletedRaw(created_at, due_date)
             s2 == Bind(s1, LAMBDA c : TaskCompletedNotFuture(c, created_at, nw))
         IN Bind(s2, TaskCompletedAddHour)

\* TaskGenerator._sample_completed_at
TaskSampleCompletedAt(created_at, due_date, status, nw) ==
    IF ~TaskGetsCompletion(status) THEN {None}
    ELSE LET s1 == TaskCompletedRaw(created_at, due_date)
             s2 == Bind(s1, LAMBDA c : TaskCompletedNotFuture(c, created_at, nw))
             s3 == Bind(s2, TaskCompletedAddHour)
             s4 == Bind(s3, LAMBDA c : TaskCompletedAfterCreated(c, created_at))
             s5 == Bind(s4, LAMBDA c : TaskCompletedBeforeNow(c, created_at, nw))
         IN {TaskCompletedSanity(c, created_at, nw) : c \in s5}

\* Lines 463-469: start_date is None for a task not started.
TaskSampleStartDate(created_at, status, nw) ==
    IF status = "not_started" THEN {None}
    ELSE {DateOf(created_at + Days(days_after_created)) :
            days_after_created \in
              RandEnds(0, Min2(3, DaysBetween(nw, created_at)))}

\* TaskGenerator.generate, lines 421-490: one iteration of the task loop.
GenerateTask ==
    /\ gen_pc = "tasks"
    /\ \E created_at \in TaskSampleCreatedAt(project.created_at, user.created_at, now) :
         \E status \in TaskStatuses :
           \E due_date \in TaskSampleDueDate(created_at) :
             \E completed_at \in TaskSampleCompletedAt(created_at, due_date, status, now) :
               \E start_date \in TaskSampleStartDate(created_at, status, now) :
                 \E created_by \in UserSampleCreatedAt(organization.created_at) :
                   task' = [created_at |-> created_at,
                            due_date |-> due_date,
                            start_date |-> start_date,
                            completed |-> (status = "completed"),
                            completed_at |-> completed_at,
                            modified_at |-> IF completed_at # None THEN completed_at
                                            ELSE created_at,
                            created_by |-> created_by]
    /\ gen_pc' = "task_built"
    /\ UNCHANGED <<now, depVars, pipeVars, childVars, relVars, organization, team, user, project, completion>>

\* tasks.append(task), and on to the next iteration.
AppendTask ==
    /\ gen_pc = "task_built"
    /\ task' = NoTask
    /\ gen_pc' = "tasks"
    /\ UNCHANGED <<now, depVars, pipeVars, childVars, relVars, organization, team, user, project, completion>>

\* created_at values at or before now, from the same instant to weeks back.
CallCreatedAtChoices ==
    {now, now - 1, now - 30 * 60, now - SecondsPerHour, now - SecondsPerHour - 1,
     now - Hours(5), now - Days(1), now - Days(3), now - Days(40)}

\* due_date values around created_at and beyond now, and None.
CallDueDateChoices(created_at) ==
    {None, DateOf(created_at) - 1, DateOf(created_at), DateOf(created_at) + 1,
     DateOf(created_at) + 15, DateOf(now) + 5}

\* One call of _sample_completed_at on its own, for any created_at <= now
\* and any due_date.
CallSampleCompletedAt ==
    /\ gen_pc = "call"
    /\ \E created_at \in CallCreatedAtChoices :
         \E due_date \in CallDueDateChoices(created_at) :
           \E status \in TaskStatuses :
             \E completed_at \in TaskSampleCompletedAt(created_at, due_date, status, now) :
               completion' = [created_at |-> created_at, due_date |-> due_date,
                              status |-> status, completed_at |-> completed_at]
    /\ gen_pc' = "returned"
    /\ UNCHANGED <<now, depVars, pipeVars, childVars, relVars, organization, team, user, project, task>>

\* The call has returned; the next one starts afresh.
CallReturned ==
    /\ gen_pc = "returned"
    /\ completion' = NoCall
    /\ gen_pc' = "call"
    /\ UNCHANGED <<now, depVars, pipeVars, childVars, relVars, organization, team, user, project, task>>

\* Every created_at the project generator can give a project, run at nw.
UpstreamProjectCreatedAt(nw) ==
    LET org_created_at == GetBaseTimestamp(nw)
        start_dates == UNION {{d[1] : d \in SampleProjectDates(org_created_at, t, nw)} :
                                t \in TeamSampleCreatedAt(org_created_at)}
    IN UNION {ProjectSampleCreatedAt(start_date) : start_date \in start_dates}

\* The task generator starts from what the earlier stages produced: the
\* organization, a user and an active project, generated at the first
\* clock reading.
InitTasks ==
    /\ now \in NowChoices
    /\ DepsIdle
    /\ PipeIdle
    /\ ChildIdle
    /\ RelIdle
    /\ organization = [created_at |-> GetBaseTimestamp(now)]
    /\ team = NoEntity
    /\ task = NoTask
    /\ completion = NoCall
    /\ \/ /\ gen_pc = "tasks"
          /\ user \in {[created_at |-> c] :
                         c \in UserSampleCreatedAt(organization.created_at)}
          /\ project \in {[NoProject EXCEPT !.created_at = c, !.status = "active"] :
                            c \in UpstreamProjectCreatedAt(now)}
       \/ /\ gen_pc = "call"
          /\ user = NoEntity
          /\ project = NoProject

NextTasks ==
    \/ GenerateTask
    \/ AppendTask
    \/ CallSampleCompletedAt
    \/ CallReturned
    \/ Tick

SpecTasks == InitTasks /\ [][NextTasks]_vars

(***************************************************************************)
(* Claims about TaskGenerator                                              *)
(***************************************************************************)
\* C3: a generated task is completed if and only if it has a completed_at.
C3_CompletedIffCompletedAt ==
    gen_pc = "task_built" => (task.completed <=> task.completed_at # None)

\* A completed task without a due date, carrying its completed_at.
C3_Witness ==
    /\ gen_pc = "task_built"
    /\ task.completed
    /\ task.due_date = None
    /\ task.completed_at # None

\* C4: a completed task has created_at <= completed_at <= now, both for the
\* tasks generate builds and for a call of _sample_completed_at with any
\* created_at <= now and any due_date.
C4_CompletedBetweenCreatedAndNow ==
    /\ (gen_pc = "task_built" /\ task.completed) =>
          /\ task.created_at <= task.completed_at
          /\ task.completed_at <= now
    /\ (gen_pc = "returned" /\ completion.status = "completed") =>
          /\ completion.created_at <= completion.completed_at
          /\ completion.completed_at <= now

\* A task created half an hour before now whose completion came back from
\* the small-gap branch of the last re-clamp: created_at plus half the gap.
C4_Witness ==
    /\ gen_pc = "returned"
    /\ completion.status = "completed"
    /\ completion.created_at = now - 30 * 60
    /\ completion.completed_at = completion.created_at + 15 * 60

\* C5: a task is created no earlier than its project and its assignee.
C5_TaskAfterProjectAndAssignee ==
    gen_pc = "task_built" =>
        task.created_at >= Max2(project.created_at, user.created_at)

\* C6: a task is never created in the future.
C6_TaskCreatedNotInFuture ==
    gen_pc = "task_built" => task.created_at <= now

\* A task of a project that the project generator stamped later than now.
C6_Witness ==
    /\ gen_pc = "task_built"
    /\ project.created_at > now
    /\ task.created_at <= now

(***************************************************************************)
(* DataGenerationPipeline.run (src/main.py) and DatabaseManager            *)
(* (src/database.py)                                                       *)
(***************************************************************************)
\* Rows per executemany call (batch_size, 1000 in the source).
batch_size == 2

\* What the generators read from research/: files, the keys of
\* benchmarks.json read with [...], and the lookup tables that must not be
\* empty.
Inputs ==
    {"companies.json", "target_companies", "names.json", "first_names",
     "job_titles.json", "benchmarks.json", "time_metrics", "task_completion",
     "workload"}

\* What the constructor and generate of each stage's generator cannot do
\* without (project_templates.json has a fallback; team_structure is read
\* with .get and defaults).
RequiredInputs(stage) ==
    CASE stage = "organization" -> {"companies.json", "target_companies"}
      [] stage = "users" -> {"names.json", "first_names", "job_titles.json",
                             "companies.json"}
      [] stage = "teams" -> {"companies.json", "benchmarks.json"}
      [] stage = "projects" -> {"benchmarks.json", "time_metrics"}
      [] stage = "tags" -> {"companies.json"}
      [] stage = "tasks" -> {"benchmarks.json", "task_completion", "workload",
                             "time_metrics"}
      [] OTHER -> {}

\* len of the list a stage generates for a table: one organization; users
\* and tasks with one row or more rows than one executemany call takes; a
\* dependency list that may be empty.
CollectionSizes(table) ==
    CASE table = "organizations" -> {1}
      [] table \in {"users", "tasks"} -> {1, batch_size + 1}
      [] table = "task_dependencies" -> {0, 1}
      [] OTHER -> {1}

CurrentStage == Stages[stage_cursor[1]]
CurrentTable == StageTables(CurrentStage)[stage_cursor[2]]

\* The statement after an insert_models call: the stage's next table, the
\* next stage, or the validation.
AdvancePc(cursor) ==
    IF cursor[2] < Len(StageTables(Stages[cursor[1]])) THEN "insert"
    ELSE IF cursor[1] < Len(Stages) THEN "generate"
    ELSE "validate"

\* The cursor stepping over the stage that comes next.
AdvanceCursorSkipping(cursor) ==
    IF cursor[2] < Len(StageTables(Stages[cursor[1]]))
    THEN <<cursor[1], cursor[2] + 1>>
    ELSE IF cursor[1] + 1 < Len(Stages) THEN <<cursor[1] + 2, 1>>
    ELSE IF cursor[1] < Len(Stages) THEN <<cursor[1] + 1, 1>>
    ELSE cursor

AdvanceCursor(cursor) ==
    IF cursor[2] < Len(StageTables(Stages[cursor[1]]))
    THEN <<cursor[1], cursor[2] + 1>>
    ELSE IF cursor[1] < Len(Stages) THEN <<cursor[1] + 1, 1>>
    ELSE cursor

\* A generator that builds its entities first and reads research/ afterwards.
CollectionsGeneratedBeforeLoad(cols, stage) ==
    [t \in Tables |-> IF t \in StageTableSet(stage) THEN 1 ELSE cols[t]]

\* __init__ calls _load_research_data before generate runs: when the load
\* raises, the stage has produced nothing.
CollectionsOnMissingInput(cols, stage) == cols

\* The ROLLBACK left out of the except branch of insert_batch.
RollbackSkipped(rows, table) == rows

\* cursor.execute("ROLLBACK"): the rows of the open transaction are gone.
RolledBack(rows, table) == [rows EXCEPT ![table] = 0]

\* The handler swallowing the exception instead of re-raising it.
AfterFinallySwallowed(oc) == "returned"

\* raise e in the handler, then the finally block: run raises after a
\* failure and returns normally otherwise.
AfterFinally(oc) == IF oc = "failed" THEN "raised" ELSE "returned"

\* _setup_database -> create_database: connect, then execute_schema, which
\* raises FileNotFoundError when the schema file is absent; self.db is
\* assigned only when create_database returns.
SetupDatabase ==
    /\ pipe_pc = "setup"
    /\ connection' = "open"
    /\ IF "schema.sql" \in missing_inputs
       THEN /\ error' = [kind |-> "missing_schema", stage |-> "setup"]
            /\ pipe_pc' = "except"
            /\ UNCHANGED self_db
       ELSE /\ self_db' = TRUE
            /\ pipe_pc' = "generate"
            /\ UNCHANGED error
    /\ UNCHANGED <<now, depVars, genVars, childVars, relVars, missing_inputs, stage_cursor,
                   collections, transaction, db_tables, fk_check, outcome>>

\* generate_<stage>(...): the generator is constructed, which loads its
\* research data, and then builds the stage's lists.
Generate ==
    /\ pipe_pc = "generate"
    /\ RequiredInputs(CurrentStage) \cap missing_inputs = {}
    /\ \E sizes \in [StageTableSet(CurrentStage) -> 0..(batch_size + 1)] :
         /\ \A t \in StageTableSet(CurrentStage) : sizes[t] \in CollectionSizes(t)
         /\ collections' = [t \in Tables |->
                               IF t \in StageTableSet(CurrentStage) THEN sizes[t]
                               ELSE collections[t]]
    /\ pipe_pc' = "insert"
    /\ UNCHANGED <<now, depVars, genVars, childVars, relVars, missing_inputs, stage_cursor, self_db,
                   connection, transaction, db_tables, fk_check, error, outcome>>

\* generate_<stage>(...) raising FileNotFoundError, KeyError or ValueError:
\* a file, a key or a lookup table the generator needs is not there.
GenerateRaises ==
    /\ pipe_pc = "generate"
    /\ RequiredInputs(CurrentStage) \cap missing_inputs # {}
    /\ collections' = CollectionsOnMissingInput(collections, CurrentStage)
    /\ error' = [kind |-> "missing_input", stage |-> CurrentStage]
    /\ pipe_pc' = "except"
    /\ UNCHANGED <<now, depVars, genVars, childVars, relVars, missing_inputs, stage_cursor, self_db,
                   connection, transaction, db_tables, fk_check, outcome>>

\* insert_models and the head of insert_batch: an empty list returns 0,
\* anything else opens the transaction.
InsertModels ==
    /\ pipe_pc = "insert"
    /\ IF collections[CurrentTable] = 0
       THEN /\ pipe_pc' = AdvancePc(stage_cursor)
            /\ stage_cursor' = AdvanceCursor(stage_cursor)
            /\ UNCHANGED transaction
       ELSE /\ transaction' = [table |-> CurrentTable, total_inserted |-> 0]
            /\ pipe_pc' = "executemany"
            /\ UNCHANGED stage_cursor
    /\ UNCHANGED <<now, depVars, genVars, childVars, relVars, missing_inputs, collections, self_db,
                   connection, db_tables, fk_check, error, outcome>>

\* The loop of insert_batch left after its first round.
ExecuteManyFirstBatchOnly ==
    /\ pipe_pc = "executemany"
    /\ LET batch == Min2(batch_size,
                         collections[transaction.table] - transaction.total_inserted)
       IN /\ db_tables' = [db_tables EXCEPT ![transaction.table] = @ + batch]
          /\ transaction' = [transaction EXCEPT !.total_inserted = @ + batch]
    /\ pipe_pc' = "commit"
    /\ UNCHANGED <<now, depVars, genVars, childVars, relVars, missing_inputs, stage_cursor,
                   collections, self_db, connection, fk_check, error, outcome>>

\* One round of the loop of insert_batch: the next batch_size records go in.
ExecuteMany ==
    /\ pipe_pc = "executemany"
    /\ LET batch == Min2(batch_size,
                         collections[transaction.table] - transaction.total_inserted)
           total_inserted == transaction.total_inserted + batch
       IN /\ db_tables' = [db_tables EXCEPT ![transaction.table] = @ + batch]
          /\ transaction' = [transaction EXCEPT !.total_inserted = total_inserted]
          /\ pipe_pc' = IF total_inserted = collections[transaction.table]
                        THEN "commit" ELSE "executemany"
    /\ UNCHANGED <<now, depVars, genVars, childVars, relVars, missing_inputs, stage_cursor,
                   collections, self_db, connection, fk_check, error, outcome>>

\* executemany raising sqlite3.Error at one record of the batch: the records
\* before it are in the transaction already.
ExecuteManyRaises ==
    /\ pipe_pc = "executemany"
    /\ LET batch == Min2(batch_size,
                         collections[transaction.table] - transaction.total_inserted)
       IN \E done \in 0..(batch - 1) :
            db_tables' = [db_tables EXCEPT ![transaction.table] = @ + done]
    /\ pipe_pc' = "rollback"
    /\ UNCHANGED <<now, depVars, genVars, childVars, relVars, missing_inputs, stage_cursor,
                   collections, self_db, connection, transaction, fk_check,
                   error, outcome>>

\* cursor.execute("COMMIT"), return total_inserted, and on to the statement
\* after the insert_models call.
Commit ==
    /\ pipe_pc = "commit"
    /\ transaction' = NoTransaction
    /\ pipe_pc' = AdvancePc(stage_cursor)
    /\ stage_cursor' = AdvanceCursor(stage_cursor)
    /\ UNCHANGED <<now, depVars, genVars, childVars, relVars, missing_inputs, collections, self_db,
                   connection, db_tables, fk_check, error, outcome>>

\* except sqlite3.Error: ROLLBACK, log, raise e.
Rollback ==
    /\ pipe_pc = "rollback"
    /\ db_tables' = RolledBack(db_tables, transaction.table)
    /\ transaction' = NoTransaction
    /\ error' = [kind |-> "sqlite3.Error", stage |-> CurrentStage]
    /\ pipe_pc' = "except"
    /\ UNCHANGED <<now, depVars, genVars, childVars, relVars, missing_inputs, stage_cursor,
                   collections, self_db, connection, fk_check, outcome>>

\* validate_foreign_keys: PRAGMA foreign_key_check finds violations or none;
\* run logs either result and goes on.
ValidateForeignKeys ==
    /\ pipe_pc = "validate"
    /\ fk_check' \in {"valid", "violations"}
    /\ pipe_pc' = "vacuum"
    /\ UNCHANGED <<now, depVars, genVars, childVars, relVars, missing_inputs, stage_cursor,
                   collections, self_db, connection, transaction, db_tables,
                   error, outcome>>

\* self.db.vacuum()
Vacuum ==
    /\ pipe_pc = "vacuum"
    /\ pipe_pc' = "report"
    /\ UNCHANGED <<now, depVars, genVars, childVars, relVars, missing_inputs, stage_cursor,
                   collections, self_db, connection, transaction, db_tables,
                   fk_check, error, outcome>>

\* print_stats and the "PIPELINE COMPLETED SUCCESSFULLY" log.
ReportCompleted ==
    /\ pipe_pc = "report"
    /\ outcome' = "completed"
    /\ pipe_pc' = "finally"
    /\ UNCHANGED <<now, depVars, genVars, childVars, relVars, missing_inputs, stage_cursor,
                   collections, self_db, connection, transaction, db_tables,
                   fk_check, error>>

\* The handler logging the failure and going on with the stage that follows.
ExceptHandlerResumes ==
    /\ pipe_pc = "except"
    /\ pipe_pc' = IF stage_cursor[1] < Len(Stages) THEN "generate" ELSE "validate"
    /\ stage_cursor' = IF stage_cursor[1] < Len(Stages)
                       THEN <<stage_cursor[1] + 1, 1>> ELSE stage_cursor
    /\ UNCHANGED <<now, depVars, genVars, childVars, relVars, missing_inputs, collections, self_db,
                   connection, transaction, db_tables, fk_check, error, outcome>>

\* except Exception as e: the "PIPELINE FAILED" log, then raise e.
ExceptHandler ==
    /\ pipe_pc = "except"
    /\ outcome' = "failed"
    /\ pipe_pc' = "finally"
    /\ UNCHANGED <<now, depVars, genVars, childVars, relVars, missing_inputs, stage_cursor,
                   collections, self_db, connection, transaction, db_tables,
                   fk_check, error>>

\* finally: if self.db: self.db.close(); then run returns or raises.
Finally ==
    /\ pipe_pc = "finally"
    /\ connection' = IF self_db THEN "closed" ELSE connection
    /\ pipe_pc' = AfterFinally(outcome)
    /\ UNCHANGED <<now, depVars, genVars, childVars, relVars, missing_inputs, stage_cursor,
                   collections, self_db, transaction, db_tables, fk_check,
                   error, outcome>>

\* run() is called on a research/ directory lacking at most one input, or
\* without the schema file.
InitPipeline ==
    /\ now = Midnight(Today) + Hours(12)
    /\ DepsIdle
    /\ GenIdle
    /\ ChildIdle
    /\ RelIdle
    /\ missing_inputs \in {{}} \cup {{i} : i \in Inputs \cup {"schema.sql"}}
    /\ pipe_pc = "setup"
    /\ stage_cursor = <<1, 1>>
    /\ collections = [t \in Tables |-> None]
    /\ self_db = FALSE
    /\ connection = "none"
    /\ transaction = NoTransaction
    /\ db_tables = [t \in Tables |-> 0]
    /\ fk_check = "not_run"
    /\ error = NoError
    /\ outcome = "running"

NextPipeline ==
    \/ SetupDatabase
    \/ Generate
    \/ GenerateRaises
    \/ InsertModels
    \/ ExecuteMany
    \/ ExecuteManyRaises
    \/ Commit
    \/ Rollback
    \/ ValidateForeignKeys
    \/ Vacuum
    \/ ReportCompleted
    \/ ExceptHandler
    \/ Finally

SpecPipeline == InitPipeline /\ [][NextPipeline]_vars

(***************************************************************************)
(* Claims about DataGenerationPipeline.run                                 *)
(***************************************************************************)
\* The stages before, and from, the one the error came out of.
StagesBefore(stage) ==
    {Stages[k] : k \in {n \in 1..Len(Stages) :
                          \E m \in (n + 1)..Len(Stages) : Stages[m] = stage}}
StagesFrom(stage) == {Stages[k] : k \in 1..Len(Stages)} \ StagesBefore(stage)

\* The list generated for a table is in the database, whole.
Persisted(t) == collections[t] # None /\ db_tables[t] = collections[t]

RunFailed == pipe_pc = "raised"
RunCompleted == pipe_pc = "returned"

\* C8 as stated: when a stage of run raises, the database holds no row
\* written by that run.
C8_NoRowsAfterFailure ==
    RunFailed => \A t \in Tables : db_tables[t] = 0

\* C8, amended: when a stage of run raises, no table is left with part of a
\* list: a table holds the whole list generated for it (the tables inserted
\* before the failure, which stay committed) or none of its rows (the
\* table whose insert failed and every table after it).
C8_NoPartialTableAfterFailure ==
    RunFailed =>
        \A t \in Tables : db_tables[t] = 0 \/ Persisted(t)

\* The insert of more than batch_size tasks failed and was rolled back, and
\* the users inserted before it are still there.
C8_Witness ==
    /\ RunFailed
    /\ error = [kind |-> "sqlite3.Error", stage |-> "tasks"]
    /\ collections["tasks"] = batch_size + 1
    /\ db_tables["tasks"] = 0
    /\ collections["users"] = batch_size + 1
    /\ db_tables["users"] = batch_size + 1

\* Every stage generated its lists and every list is in the database.
AllStagesSucceeded == \A t \in Tables : Persisted(t)

\* C9 as stated: run returns normally, reporting completion, only if every
\* stage succeeded and the foreign-key validation passed.
C9_CompletedOnlyIfValidated ==
    RunCompleted =>
        /\ outcome = "completed"
        /\ AllStagesSucceeded
        /\ fk_check = "valid"

\* C9, amended: run returns normally, reporting completion, only if every
\* stage succeeded and the foreign-key validation was run; the result of the
\* validation is logged and does not stop the run.
C9_CompletedOnlyIfAllStagesSucceeded ==
    RunCompleted =>
        /\ outcome = "completed"
        /\ AllStagesSucceeded
        /\ fk_check # "not_run"
        /\ error = NoError

\* A run that completed although the validation found violations.
C9_Witness ==
    /\ RunCompleted
    /\ outcome = "completed"
    /\ AllStagesSucceeded
    /\ fk_check = "violations"

MissingInputRaised == error.kind = "missing_input"

Generated(t) == collections[t] # None

\* C11 as stated: the stages run in order and nothing is handed to the
\* database before every generation stage has completed.
C11_PersistAfterAllGeneration ==
    /\ \A k \in 1..Len(Stages) :
         (\E t \in StageTableSet(Stages[k]) : Generated(t)) =>
            \A j \in 1..(k - 1) : \A u \in StageTableSet(Stages[j]) : Generated(u)
    /\ (\E t \in Tables : db_tables[t] > 0 \/ transaction.table = t) =>
          \A u \in Tables : Generated(u)

\* C11, amended: the stages run in the order Organization, Users, Teams,
\* Projects, Sections, Tags, Tasks, Dependencies, Comments, Attachments,
\* CustomFields, TaskTags, each one generating its lists and inserting them
\* before the next stage begins; the validation runs when every stage has
\* inserted its lists, and the vacuum after the validation.
C11_StagesInOrderEachPersisted ==
    /\ \A k \in 1..Len(Stages) :
         (\E t \in StageTableSet(Stages[k]) : Generated(t)) =>
            \A j \in 1..(k - 1) : \A u \in StageTableSet(Stages[j]) : Persisted(u)
    /\ \A k \in 1..Len(Stages) :
         \A j \in 1..Len(StageTables(Stages[k])) :
            LET t == StageTables(Stages[k])[j]
            IN (db_tables[t] > 0 \/ transaction.table = t) =>
                  /\ Generated(t)
                  /\ \A i \in 1..(j - 1) : Persisted(StageTables(Stages[k])[i])
    /\ fk_check # "not_run" => AllStagesSucceeded
    /\ (pipe_pc = "report" \/ outcome = "completed") => fk_check # "not_run"

\* The users are being inserted while no team has been generated yet.
C11_Witness ==
    /\ pipe_pc = "executemany"
    /\ transaction = [table |-> "users", total_inserted |-> batch_size]
    /\ Persisted("organizations")
    /\ ~Generated("teams")
    /\ ~Generated("task_tags")

\* An error came out of one of the twelve stages (its generator or one of
\* its inserts).
StageRaised == \E k \in 1..Len(Stages) : error.stage = Stages[k]

\* The tables of the failing stage that come after the table at the cursor.
TablesAfterCursor ==
    {StageTables(CurrentStage)[j] :
        j \in (stage_cursor[2] + 1)..Len(StageTables(CurrentStage))}

\* C12: when stage k raises, no later generation, insert, validation or
\* vacuum is executed, the error that was raised is the one run re-raises,
\* and the database connection is closed when run is left; for every k.
C12_FailureAbortsAndCloses ==
    /\ [](StageRaised =>
            /\ pipe_pc \in {"except", "finally", "raised"}
            /\ error.stage = CurrentStage
            /\ \A stage \in StagesFrom(error.stage) \ {error.stage} :
                 \A t \in StageTableSet(stage) : ~Generated(t) /\ db_tables[t] = 0
            /\ \A t \in TablesAfterCursor : db_tables[t] = 0
            /\ fk_check = "not_run"
            /\ outcome # "completed"
            /\ (pipe_pc = "raised" => connection = "closed" /\ outcome = "failed"))
    /\ [][error # NoError => error' = error]_vars

\* The insert of the projects failed: run has raised the sqlite3.Error, the
\* connection is closed and no section was generated.
C12_Witness ==
    /\ RunFailed
    /\ error = [kind |-> "sqlite3.Error", stage |-> "projects"]
    /\ connection = "closed"
    /\ Persisted("teams")
    /\ ~Generated("sections")

C14_ProjectCompletedAtIffClosed ==
    gen_pc = "project_built" =>
        (project.completed_at # None <=> project.status \in {"completed", "archived"})

\* An archived project carrying its completed_at.
C14_Witness ==
    /\ gen_pc = "project_built"
    /\ project.status = "archived"
    /\ project.completed_at # None

\* C15: a project's completed_at is not on a day before start_date and is
\* not later than now, whichever path _sample_completed_at took.
C15_ProjectCompletedBetweenStartAndNow ==
    (gen_pc = "project_built" /\ project.completed_at # None) =>
        /\ project.start_date <= DateOf(project.completed_at)
        /\ project.completed_at <= now

(***************************************************************************)
(* CommentGenerator, AttachmentGenerator, CustomFieldGenerator and         *)
(* TaskTagGenerator: the records that hang off a task                      *)
(***************************************************************************)
\* TagGenerator._sample_created_at: within the organization's first month,
\* at 08:00-17:00.
TagSampleCreatedAt(org_created_at) ==
    {ReplaceTime(org_created_at + Days(d), hour, 0) :
        d \in RandInt(0, 30), hour \in RandEnds(8, 17)}

\* comments.py lines 139-148: completion or now, pushed after the task's
\* creation when it is not, and capped at now.
CommentEndTime(task_created_at, task_completed_at, nw) ==
    LET e0 == IF task_completed_at # None THEN task_completed_at ELSE nw
        e1s == IF e0 <= task_created_at
               THEN {task_created_at + Hours(h) : h \in RandInt(1, 48)}
               ELSE {e0}
    IN {IF e > nw THEN nw ELSE e : e \in e1s}

\* comments.py lines 170-179, the "final constraints".
CommentFinalConstraints(created_at, task_created_at, nw) ==
    LET c1s == IF created_at < task_created_at
               THEN {task_created_at + Hours(h) : h \in RandInt(1, 24)}
               ELSE {created_at}
        c2s == UNION {IF c > nw THEN {nw - Hours(h) : h \in RandInt(1, 24)}
                      ELSE {c} : c \in c1s}
    IN UNION {IF c < task_created_at
              THEN {task_created_at + m * 60 : m \in RandInt(1, 60)}
              ELSE {c} : c \in c2s}

\* CommentGenerator._sample_created_at; progress in [0, 1] makes
\* offset_seconds run from 0 to time_span.
CommentSampleCreatedAt(task_created_at, task_completed_at, nw) ==
    UNION {LET time_span == end_time - task_created_at
           IN IF time_span <= 0
              THEN {task_created_at + m * 60 : m \in RandInt(1, 60)}
              ELSE UNION {CommentFinalConstraints(task_created_at + offset_seconds,
                                                  task_created_at, nw) :
                            offset_seconds \in RandInt(0, time_span)} :
             end_time \in CommentEndTime(task_created_at, task_completed_at, nw)}

\* A future timestamp replaced by the day before now, as other samplers do.
FutureReplacedByDayBeforeNow(created_at, task_created_at, nw) ==
    IF created_at > nw THEN nw - Hours(24) ELSE created_at

\* "Ensure not in future" of attachments.py and task_tags.py: a future
\* timestamp falls back to the task's own created_at.
NotInFuture(created_at, task_created_at, nw) ==
    IF created_at > nw THEN task_created_at ELSE created_at

\* AttachmentGenerator._sample_created_at
AttachmentSampleCreatedAt(task_created_at, nw) ==
    {NotInFuture(task_created_at + Days(days_after) + Hours(h), task_created_at, nw) :
        days_after \in {0, 1, 2, 3, 7, 14}, h \in RandInt(0, 12)}

\* TaskTagGenerator._sample_created_at
TaskTagSampleCreatedAt(task_created_at, nw) ==
    {NotInFuture(task_created_at + Days(days_after) + Hours(h), task_created_at, nw) :
        days_after \in {0, 1, 2, 3, 7}, h \in RandInt(0, 12)}

\* CustomFieldGenerator.generate: every field type stamps its value
\* task.created_at + 1..48 hours.
CustomFieldValueCreatedAt(task_created_at) ==
    {task_created_at + Hours(h) : h \in RandInt(1, 48)}

\* CommentGenerator.generate: one comment of the task; the author is the
\* assignee, the creator or a user of the assignee's department.  A record's
\* referenced_created_at, like task.created_by, holds the created_at of the
\* user or tag it names.
GenerateComment ==
    /\ gen_pc = "children"
    /\ \E author \in UserSampleCreatedAt(organization.created_at) :
         \E created_at \in CommentSampleCreatedAt(task.created_at,
                                                  task.completed_at, now) :
           child' = [kind |-> "comment", created_at |-> created_at,
                     referenced_created_at |-> author]
    /\ gen_pc' = "child_built"
    /\ UNCHANGED <<now, depVars, pipeVars, relVars, organization, team, user, project,
                   task, completion>>

\* AttachmentGenerator.generate: one attachment of the task, uploaded by the
\* assignee or by the creator.
GenerateAttachment ==
    /\ gen_pc = "children"
    /\ \E uploader \in {user.created_at, task.created_by} :
         \E created_at \in AttachmentSampleCreatedAt(task.created_at, now) :
           child' = [kind |-> "attachment", created_at |-> created_at,
                     referenced_created_at |-> uploader]
    /\ gen_pc' = "child_built"
    /\ UNCHANGED <<now, depVars, pipeVars, relVars, organization, team, user, project,
                   task, completion>>

\* CustomFieldGenerator.generate: one value of the task.
GenerateCustomFieldValue ==
    /\ gen_pc = "children"
    /\ \E created_at \in CustomFieldValueCreatedAt(task.created_at) :
         child' = [kind |-> "custom_field_value", created_at |-> created_at,
                   referenced_created_at |-> None]
    /\ gen_pc' = "child_built"
    /\ UNCHANGED <<now, depVars, pipeVars, relVars, organization, team, user, project,
                   task, completion>>

\* TaskTagGenerator.generate: one tag put on the task.
GenerateTaskTag ==
    /\ gen_pc = "children"
    /\ \E tag \in TagSampleCreatedAt(organization.created_at) :
         \E created_at \in TaskTagSampleCreatedAt(task.created_at, now) :
           child' = [kind |-> "task_tag", created_at |-> created_at,
                     referenced_created_at |-> tag]
    /\ gen_pc' = "child_built"
    /\ UNCHANGED <<now, depVars, pipeVars, relVars, organization, team, user, project,
                   task, completion>>

\* The record is appended to its list; on to the next one.
AppendChild ==
    /\ gen_pc = "child_built"
    /\ child' = NoChild
    /\ gen_pc' = "children"
    /\ UNCHANGED <<now, depVars, pipeVars, relVars, organization, team, user, project,
                   task, completion>>

\* created_at of the tasks handed to the generators: from nw itself back to
\* the first days of the organization.
ParentCreatedAtChoices(nw) ==
    {nw, nw - 30 * 60, nw - Hours(5), nw - Days(1), nw - Days(3), nw - Days(40),
     nw - Days(days_since_org - 5)}

\* completed_at of such a task: None, or a time from created_at to nw.
ParentCompletedAtChoices(created_at, nw) ==
    {None, created_at + (nw - created_at) \div 2, nw}

\* The tasks of TaskGenerator.generate as the later generators receive them.
ParentTasks(org_created_at, nw) ==
    UNION {{[NoTask EXCEPT !.created_at = created_at,
                           !.completed = (completed_at # None),
                           !.completed_at = completed_at,
                           !.modified_at = IF completed_at # None THEN completed_at
                                           ELSE created_at,
                           !.created_by = created_by] :
               completed_at \in ParentCompletedAtChoices(created_at, nw),
               created_by \in UserSampleCreatedAt(org_created_at)} :
             created_at \in ParentCreatedAtChoices(nw)}

\* The generators of the records of a task start from the organization, the
\* task and its assignee.
InitChildren ==
    /\ now \in NowChoices
    /\ DepsIdle
    /\ PipeIdle
    /\ ChildIdle
    /\ RelIdle
    /\ organization = [created_at |-> GetBaseTimestamp(now)]
    /\ team = NoEntity
    /\ project = NoProject
    /\ completion = NoCall
    /\ gen_pc = "children"
    /\ user \in {[created_at |-> c] :
                   c \in UserSampleCreatedAt(organization.created_at)}
    /\ task \in ParentTasks(organization.created_at, now)

NextChildren ==
    \/ GenerateComment
    \/ GenerateAttachment
    \/ GenerateCustomFieldValue
    \/ GenerateTaskTag
    \/ AppendChild
    \/ Tick

SpecChildren == InitChildren /\ [][NextChildren]_vars

\* DependencyGenerator.generate together with the generators of the records
\* of a task: either one runs.
SpecDepsAndChildren ==
    (InitDeps \/ InitChildren) /\ [][NextDeps \/ NextChildren]_vars

\* TaskGenerator.generate together with the generators of the records of a
\* task: either one runs.
SpecTasksAndChildren ==
    (InitTasks \/ InitChildren) /\ [][NextTasks \/ NextChildren]_vars

(***************************************************************************)
(* Claims about the records of a task                                      *)
(***************************************************************************)
ChildBuilt == gen_pc = "child_built"

\* C16: a comment, attachment, custom field value or task tag is never
\* timestamped before the task it belongs to.
C16_ChildNotBeforeTask ==
    ChildBuilt => child.created_at >= task.created_at

\* An attachment of a task created in the last hours, after the clock moved
\* on: it carries the task's own created_at.
C16_Witness ==
    /\ ChildBuilt
    /\ child.kind = "attachment"
    /\ task.created_at < now
    /\ task.created_at + Hours(12) > now
    /\ child.created_at = task.created_at

\* C17: a task dependency or a custom field value is never timestamped
\* later than now.
C17_DependencyAndValueNotInFuture ==
    /\ \A j \in 1..Len(dependencies) : dependencies[j].created_at <= now
    /\ (ChildBuilt /\ child.kind = "custom_field_value") => child.created_at <= now

\* C18: a comment, attachment or task tag is never timestamped later than
\* now, also when the task was created at now itself.
C18_CommentAttachmentTagNotInFuture ==
    (ChildBuilt /\ child.kind \in {"comment", "attachment", "task_tag"}) =>
        child.created_at <= now

\* C19: every record of a task is timestamped within
\* [task.created_at, min(task.completed_at or now, now)].
C19_ChildWithinTaskLifetime ==
    ChildBuilt =>
        /\ task.created_at <= child.created_at
        /\ child.created_at <=
              Min2(IF task.completed_at # None THEN task.completed_at ELSE now, now)

\* C20: a task is not timestamped before the user who created it, a comment
\* not before its author, an attachment not before its uploader, a task tag
\* not before its tag.
C20_NotBeforeReferencedUserOrTag ==
    /\ gen_pc = "task_built" => task.created_at >= task.created_by
    /\ (ChildBuilt /\ child.kind \in {"comment", "attachment", "task_tag"}) =>
          child.created_at >= child.referenced_created_at

(***************************************************************************)
(* SectionGenerator (generators/sections.py)                               *)
(***************************************************************************)
\* Projects in one call of SectionGenerator.generate.
MaxSectionProjects == 2

\* section_templates: the section names of each project type.
section_templates ==
    [sprint |-> <<"Backlog", "In Progress", "Review", "Done">>,
     ongoing |-> <<"To Do", "In Progress", "Done">>,
     bug_tracking |-> <<"New", "Triaged", "In Progress", "Fixed", "Closed">>,
     campaign |-> <<"Planning", "Creative", "Execution", "Analysis">>,
     roadmap |-> <<"Now", "Next", "Later", "Parking Lot">>,
     default |-> <<"To Do", "In Progress", "Done">>]

\* _get_sections_for_project: dict.get with the 'default' list as fallback.
GetSectionsForProject(project_type) ==
    IF project_type \in DOMAIN section_templates
    THEN section_templates[project_type]
    ELSE section_templates["default"]

\* "ABSOLUTE FINAL CONSTRAINT: Ensure not in future" (lines 101-102).
SectionNotInFuture(created_at, nw) ==
    IF created_at > nw
    THEN {nw - Hours(h) : h \in RandInt(1, 24)}
    ELSE {created_at}

\* SectionGenerator._sample_created_at
SectionSampleCreatedAt(project_created_at, nw) ==
    LET c1s == {IF project_created_at + Days(days_after) > nw
                THEN project_created_at
                ELSE project_created_at + Days(days_after) :
                  days_after \in RandInt(0, 2)}
        c2s == {ReplaceTime(c, hour, 0) : c \in c1s, hour \in RandEnds(8, 17)}
        c3s == {IF c < project_created_at THEN project_created_at ELSE c :
                  c \in c2s}
    IN Bind(c3s, LAMBDA c : SectionNotInFuture(c, nw))

\* enumerate(section_names), counting from one.
EnumerateFromOne(section_names) ==
    [i \in 1..Len(section_names) |-> <<i, section_names[i]>>]

\* enumerate(section_names): the pairs (position, section_name).
Enumerate(section_names) ==
    [i \in 1..Len(section_names) |-> <<i - 1, section_names[i]>>]

\* The project of the outer loop and its section names.
SecProject == sec_projects[sec_cursor[1]]
SecNames == GetSectionsForProject(SecProject.project_type)

\* One iteration of the inner loop up to the Section(...) constructor.
GenerateSection ==
    /\ sec_pc = "loop"
    /\ sec_cursor[1] <= Len(sec_projects)
    /\ sec_cursor[2] <= Len(SecNames)
    /\ \E created_at \in SectionSampleCreatedAt(SecProject.created_at, now) :
         section' = [project_id |-> SecProject.project_id,
                     position |-> Enumerate(SecNames)[sec_cursor[2]][1],
                     created_at |-> created_at]
    /\ sec_pc' = "built"
    /\ UNCHANGED <<now, depVars, genVars, pipeVars, childVars, placeVars, attVars, cfVars, tagVars, ttVars, memVars,
                   sec_projects, sec_cursor, sections>>

\* sections.append(section); the inner loop moves on, and the outer loop
\* when the names are used up.
AppendSection ==
    /\ sec_pc = "built"
    /\ sections' = Append(sections, [project_id |-> section.project_id,
                                     position |-> section.position])
    /\ section' = NoSection
    /\ sec_cursor' = IF sec_cursor[2] < Len(SecNames)
                     THEN <<sec_cursor[1], sec_cursor[2] + 1>>
                     ELSE <<sec_cursor[1] + 1, 1>>
    /\ sec_pc' = "loop"
    /\ UNCHANGED <<now, depVars, genVars, pipeVars, childVars, placeVars, attVars, cfVars, tagVars, ttVars, memVars,
                   sec_projects>>

\* The outer loop is exhausted: generate returns sections.
SectionsReturn ==
    /\ sec_pc = "loop"
    /\ sec_cursor[1] > Len(sec_projects)
    /\ sec_pc' = "done"
    /\ UNCHANGED <<now, depVars, genVars, pipeVars, childVars, placeVars, attVars, cfVars, tagVars, ttVars, memVars,
                   sec_projects, sec_cursor, section, sections>>

\* Project types of the projects handed in; "onboarding" has no template.
SectionProjectTypes == {"ongoing", "bug_tracking", "onboarding"}

\* created_at of those projects: the earliest the project generator gives
\* and those of the last two days.
SectionProjectCreatedAt(nw) ==
    LET all == UpstreamProjectCreatedAt(nw)
    IN {c \in all : c > nw - Days(2) \/ \A d \in all : c <= d}

\* The lists of projects with project ids 1..n.
SectionProjectLists(nw) ==
    UNION {[1..n -> [project_type : SectionProjectTypes,
                     created_at : SectionProjectCreatedAt(nw)]] :
             n \in 1..MaxSectionProjects}

InitSections ==
    /\ now \in NowChoices
    /\ DepsIdle
    /\ GenIdle
    /\ PipeIdle
    /\ ChildIdle
    /\ PlaceIdle
    /\ AttIdle
    /\ CfIdle
    /\ TagIdle
    /\ TtIdle
    /\ MemIdle
    /\ \E ps \in SectionProjectLists(now) :
         sec_projects = [i \in 1..Len(ps) |->
                           [project_id |-> i, project_type |-> ps[i].project_type,
                            created_at |-> ps[i].created_at]]
    /\ sec_pc = "loop"
    /\ sec_cursor = <<1, 1>>
    /\ section = NoSection
    /\ sections = <<>>

NextSections ==
    \/ GenerateSection
    \/ AppendSection
    \/ SectionsReturn
    \/ Tick

SpecSections == InitSections /\ [][NextSections]_vars

(***************************************************************************)
(* Claims about SectionGenerator                                           *)
(***************************************************************************)
SectionBuilt == sec_pc = "built"

\* C21: every section is timestamped no earlier than its project and no
\* later than now, whatever created_at the project generator gave the
\* project and whichever clamp produced the section's timestamp.
C21_SectionBetweenProjectAndNow ==
    SectionBuilt =>
        /\ SecProject.created_at <= section.created_at
        /\ section.created_at <= now

\* The indices in `sections` of the sections of project p.
SectionsOfProject(p) == {j \in 1..Len(sections) : sections[j].project_id = p}

\* C22: for every project, the positions of its sections are exactly
\* 0..n-1, n being the number of sections generated for it: no gap and no
\* position used twice.
C22_SectionPositionsContiguous ==
    \A p \in 1..Len(sec_projects) :
        /\ \A j, k \in SectionsOfProject(p) :
               j # k => sections[j].position # sections[k].position
        /\ {sections[j].position : j \in SectionsOfProject(p)}
               = 0..(Cardinality(SectionsOfProject(p)) - 1)

\* generate has returned the sections of a five-section project and of a
\* project whose type falls back to the default template.
C22_Witness ==
    /\ sec_pc = "done"
    /\ Len(sec_projects) = 2
    /\ sec_projects[1].project_type = "bug_tracking"
    /\ sec_projects[2].project_type = "onboarding"
    /\ Cardinality(SectionsOfProject(1)) = 5
    /\ Cardinality(SectionsOfProject(2)) = 3

(***************************************************************************)
(* TeamMembershipGenerator (generators/team_membership.py)                 *)
(***************************************************************************)
\* Teams and users in one call of TeamMembershipGenerator.generate.
MaxMemTeams == 5
MaxMemUsers == 2

\* avg_team_size_range, with the defaults of _load_benchmarks.
avg_team_size_range == <<6, 12>>

\* _sample_team_size: int(random.triangular(min, max, 8.5)).
SampleTeamSize == RandInt(avg_team_size_range[1], avg_team_size_range[2])

\* The final safety check of _sample_joined_at, left out.
JoinedUnchecked(joined_at, earliest, nw) == joined_at

\* "Final safety check: ensure within bounds" (lines 96-100).
JoinedWithinBounds(joined_at, earliest, nw) ==
    LET j1 == IF joined_at < earliest THEN earliest ELSE joined_at
    IN IF j1 > nw THEN nw ELSE j1

\* TeamMembershipGenerator._sample_joined_at
SampleJoinedAt(user_created_at, team_created_at, nw) ==
    LET e0 == Max2(user_created_at, team_created_at)
        earliest == IF e0 > nw THEN nw - Days(1) ELSE e0
        max_days_until_now == DaysBetween(nw, earliest)
    IN {JoinedWithinBounds(ReplaceTime(earliest + Days(days_delay), hour, 0),
                           earliest, nw) :
          days_delay \in RandInt(0, Min2(30, max_days_until_now)),
          hour \in RandEnds(8, 17)}

\* len(user_team_assignments[u.user_id])
NumAssignments(u) == Cardinality(user_team_assignments[u.user_id])

\* list.sort(key=lambda u: len(user_team_assignments[u.user_id])): a stable
\* sort, equal keys keep their order in the list.
RECURSIVE SortByAssignments(_)
SortByAssignments(s) ==
    IF s = <<>> THEN <<>>
    ELSE LET front == SortByAssignments(SubSeq(s, 1, Len(s) - 1))
             x == s[Len(s)]
             k == Cardinality({j \in 1..Len(front) :
                                 NumAssignments(front[j]) <= NumAssignments(x)})
         IN SubSeq(front, 1, k) \o <<x>> \o SubSeq(front, k + 1, Len(front))

\* The team of the outer loop.
MemTeam == mem_teams[mem_cursor[1]]

\* users_by_dept.get(team.team_type, []) is this list unless it is empty.
DeptHasUsers == users_by_dept[MemTeam.team_type] # <<>>

\* matching_users: the team's department, or every user as the fallback.
MatchingUsers == IF DeptHasUsers THEN users_by_dept[MemTeam.team_type] ELSE mem_users

\* "Filter out users already on 4+ teams"
UnderCap(users) == SelectSeq(users, LAMBDA u : NumAssignments(u) < 4)

\* The outer loop body up to selected_users.  When every matching user is
\* on four teams, available_users is matching_users itself, and the sort
\* reorders that list in place.
SelectTeamMembers ==
    /\ mem_pc = "teams"
    /\ mem_cursor[1] <= Len(mem_teams)
    /\ \E target_size \in SampleTeamSize :
         LET all_maxed == UnderCap(MatchingUsers) = <<>>
             available_users == SortByAssignments(IF all_maxed THEN MatchingUsers
                                                  ELSE UnderCap(MatchingUsers))
             num_to_assign == Min2(target_size, Len(available_users))
         IN /\ selected_users' = SubSeq(available_users, 1, num_to_assign)
            /\ users_by_dept' = IF all_maxed /\ DeptHasUsers
                                THEN [users_by_dept EXCEPT
                                        ![MemTeam.team_type] = available_users]
                                ELSE users_by_dept
            /\ mem_users' = IF all_maxed /\ ~DeptHasUsers THEN available_users
                            ELSE mem_users
            /\ IF num_to_assign = 0
               THEN /\ mem_cursor' = <<mem_cursor[1] + 1, 1>>
                    /\ mem_pc' = "teams"
               ELSE /\ mem_cursor' = <<mem_cursor[1], 1>>
                    /\ mem_pc' = "members"
    /\ UNCHANGED <<now, depVars, genVars, pipeVars, childVars, placeVars, attVars, cfVars, tagVars, ttVars, secVars,
                   mem_teams, user_team_assignments, membership, memberships>>

\* One iteration of the inner loop up to the TeamMembership(...) constructor.
BuildMembership ==
    /\ mem_pc = "members"
    /\ LET u == selected_users[mem_cursor[2]]
       IN \E joined_at \in SampleJoinedAt(u.created_at, MemTeam.created_at, now) :
            membership' = [team_id |-> MemTeam.team_id, user_id |-> u.user_id,
                           role |-> IF mem_cursor[2] = 1 THEN "admin" ELSE "member",
                           joined_at |-> joined_at]
    /\ mem_pc' = "member_built"
    /\ UNCHANGED <<now, depVars, genVars, pipeVars, childVars, placeVars, attVars, cfVars, tagVars, ttVars, secVars,
                   mem_teams, mem_users, users_by_dept, user_team_assignments,
                   mem_cursor, selected_users, memberships>>

\* memberships.append(membership) and the bookkeeping after it.
AppendMembership ==
    /\ mem_pc = "member_built"
    /\ memberships' = Append(memberships, [team_id |-> membership.team_id,
                                           user_id |-> membership.user_id,
                                           role |-> membership.role])
    /\ user_team_assignments' =
         [user_team_assignments EXCEPT
            ![membership.user_id] = @ \cup {membership.team_id}]
    /\ membership' = NoMembership
    /\ IF mem_cursor[2] < Len(selected_users)
       THEN /\ mem_cursor' = <<mem_cursor[1], mem_cursor[2] + 1>>
            /\ mem_pc' = "members"
       ELSE /\ mem_cursor' = <<mem_cursor[1] + 1, 1>>
            /\ mem_pc' = "teams"
    /\ UNCHANGED <<now, depVars, genVars, pipeVars, childVars, placeVars, attVars, cfVars, tagVars, ttVars, secVars,
                   mem_teams, mem_users, users_by_dept, selected_users>>

\* The outer loop is exhausted: generate returns memberships.
MembershipsReturn ==
    /\ mem_pc = "teams"
    /\ mem_cursor[1] > Len(mem_teams)
    /\ mem_pc' = "done"
    /\ UNCHANGED <<now, depVars, genVars, pipeVars, childVars, placeVars, attVars, cfVars, tagVars, ttVars, secVars,
                   mem_teams, mem_users, users_by_dept, user_team_assignments,
                   mem_cursor, selected_users, membership, memberships>>

\* Departments of users and types of teams.
Departments == {"Engineering", "Marketing", "Sales"}

\* The teams handed in: engineering teams of the organization's first day
\* and marketing teams of its last, as TeamGenerator stamps them.
MemTeamChoices(org_created_at) ==
    {[team_type |-> "Engineering",
      created_at |-> ReplaceTime(org_created_at, 8, 0)],
     [team_type |-> "Marketing",
      created_at |-> ReplaceTime(org_created_at + Days(days_since_org - 1), 17, 0)]}

\* The users handed in, as UserGenerator stamps them; nobody is in marketing.
MemUserChoices(org_created_at) ==
    {[department |-> "Engineering",
      created_at |-> ReplaceTime(org_created_at + Days(days_since_org - 1), 8, 0)],
     [department |-> "Engineering",
      created_at |-> ReplaceTime(org_created_at, 17, 0)],
     [department |-> "Sales",
      created_at |-> ReplaceTime(org_created_at + Days(days_since_org - 1), 17, 0)]}

\* "Group users by department"
GroupUsersByDept(users) ==
    [d \in Departments |-> SelectSeq(users, LAMBDA u : u.department = d)]

InitMemberships ==
    /\ now \in NowChoices
    /\ DepsIdle
    /\ GenIdle
    /\ PipeIdle
    /\ ChildIdle
    /\ PlaceIdle
    /\ AttIdle
    /\ CfIdle
    /\ TagIdle
    /\ TtIdle
    /\ SecIdle
    /\ \E n \in 1..MaxMemTeams :
         \E ts \in [1..n -> MemTeamChoices(GetBaseTimestamp(now))] :
           mem_teams = [i \in 1..n |-> [team_id |-> i, team_type |-> ts[i].team_type,
                                        created_at |-> ts[i].created_at]]
    /\ \E n \in 1..MaxMemUsers :
         \E us \in [1..n -> MemUserChoices(GetBaseTimestamp(now))] :
           mem_users = [i \in 1..n |-> [user_id |-> i, department |-> us[i].department,
                                        created_at |-> us[i].created_at]]
    /\ users_by_dept = GroupUsersByDept(mem_users)
    /\ user_team_assignments = [i \in 1..Len(mem_users) |-> {}]
    /\ mem_pc = "teams"
    /\ mem_cursor = <<1, 1>>
    /\ selected_users = <<>>
    /\ membership = NoMembership
    /\ memberships = <<>>

NextMemberships ==
    \/ SelectTeamMembers
    \/ BuildMembership
    \/ AppendMembership
    \/ MembershipsReturn
    \/ Tick

SpecMemberships == InitMemberships /\ [][NextMemberships]_vars

(***************************************************************************)
(* Claims about TeamMembershipGenerator                                    *)
(***************************************************************************)
\* The number of memberships of user u in the list.
MembershipsOfUser(u) ==
    Cardinality({j \in 1..Len(memberships) : memberships[j].user_id = u})

\* C23: no user holds more than 4 team memberships, however many teams
\* there are and however few users their departments have.
C23_AtMostFourTeamsPerUser ==
    \A u \in 1..Len(mem_users) : MembershipsOfUser(u) <= 4

MembershipBuilt == mem_pc = "member_built"

\* The user of the membership just built.
MemUser == selected_users[mem_cursor[2]]

\* C24: for a user and a team created at or before now, the membership's
\* joined_at is no earlier than the later of the two and no later than now.
C24_JoinedBetweenEarliestAndNow ==
    (MembershipBuilt /\ MemUser.created_at <= now /\ MemTeam.created_at <= now) =>
        /\ Max2(MemUser.created_at, MemTeam.created_at) <= membership.joined_at
        /\ membership.joined_at <= now

\* A membership whose sampled joined_at lay after now and was cut back to
\* now, for a user who joined the organization after the team was created.
C24_Witness ==
    /\ MembershipBuilt
    /\ MemTeam.created_at < MemUser.created_at
    /\ MemUser.created_at < now
    /\ membership.joined_at = now

(***************************************************************************)
(* TaskTagGenerator.generate (generators/task_tags.py): which tags a task  *)
(* gets.  Names are held as lists of lower-case words.                     *)
(***************************************************************************)
\* Tasks in one call of TaskTagGenerator.generate.
MaxTtTasks == 2

\* phrase.lower() in name.lower(): the words of phrase occur in name, in a
\* row.
InName(phrase, name) ==
    \E i \in 1..Len(name) :
        /\ i + Len(phrase) - 1 <= Len(name)
        /\ SubSeq(name, i, i + Len(phrase) - 1) = phrase

\* keywords_to_tags, flattened in the order the two loops visit it (the
\* entries whose keyword or tag name occurs in the model's names).
keywords_to_tags ==
    <<[keyword |-> <<"bug">>, tag_name |-> <<"bug">>],
      [keyword |-> <<"bug">>, tag_name |-> <<"critical">>],
      [keyword |-> <<"bug">>, tag_name |-> <<"urgent">>],
      [keyword |-> <<"fix">>, tag_name |-> <<"bug">>],
      [keyword |-> <<"fix">>, tag_name |-> <<"maintenance">>],
      [keyword |-> <<"design">>, tag_name |-> <<"design">>],
      [keyword |-> <<"urgent">>, tag_name |-> <<"urgent">>],
      [keyword |-> <<"urgent">>, tag_name |-> <<"high", "priority">>]>>

\* relevant_tags.append(tag) for every matching tag, seen or not.
RECURSIVE AppendSeenToo(_, _)
AppendSeenToo(relevant_tags, matching_tags) ==
    IF matching_tags = <<>> THEN relevant_tags
    ELSE AppendSeenToo(Append(relevant_tags, Head(matching_tags)),
                       Tail(matching_tags))

\* "if tag.tag_id not in seen_tag_ids": the matching tags not yet in
\* relevant_tags are appended, in list order.
RECURSIVE AppendUnseen(_, _)
AppendUnseen(relevant_tags, matching_tags) ==
    IF matching_tags = <<>> THEN relevant_tags
    ELSE LET tag == Head(matching_tags)
             seen == \E j \in 1..Len(relevant_tags) :
                        relevant_tags[j].tag_id = tag.tag_id
         IN AppendUnseen(IF seen THEN relevant_tags
                         ELSE Append(relevant_tags, tag),
                         Tail(matching_tags))

\* "Priority-based tags"
PriorityTags(tsk, org_tags) ==
    IF tsk.priority # <<>>
    THEN AppendUnseen(<<>>, SelectSeq(org_tags,
                                      LAMBDA t : InName(tsk.priority, t.name)))
    ELSE <<>>

\* "Name-based tags (keywords)": entries k.. of keywords_to_tags.
RECURSIVE KeywordTags(_, _, _, _)
KeywordTags(relevant_tags, tsk, org_tags, k) ==
    IF k > Len(keywords_to_tags) THEN relevant_tags
    ELSE LET e == keywords_to_tags[k]
             matching_tags == SelectSeq(org_tags,
                                        LAMBDA t : InName(e.tag_name, t.name))
         IN KeywordTags(IF InName(e.keyword, tsk.name)
                        THEN AppendUnseen(relevant_tags, matching_tags)
                        ELSE relevant_tags,
                        tsk, org_tags, k + 1)

\* TaskTagGenerator._get_relevant_tags: the lists it can return.
GetRelevantTags(tsk, tags, org_id) ==
    LET org_tags == SelectSeq(tags, LAMBDA t : t.organization_id = org_id)
        relevant_tags == KeywordTags(PriorityTags(tsk, org_tags), tsk, org_tags, 1)
    IN IF org_tags = <<>> THEN {<<>>}
       ELSE IF relevant_tags = <<>>
            THEN RandomSample(org_tags, Min2(10, Len(org_tags)))
            ELSE {relevant_tags}

\* _sample_num_tags
SampleNumTags == 1..5

\* TaskTag(task_id, tag_id) for every selected tag, appended in order.
TaskTagsOf(tsk, selected_tags) ==
    [j \in 1..Len(selected_tags) |->
        [task_id |-> tsk.task_id, tag_id |-> selected_tags[j].tag_id]]

\* "if not tags: return []"
TaskTagsNoTags ==
    /\ tt_pc = "start"
    /\ tt_tags = <<>>
    /\ tt_pc' = "done"
    /\ UNCHANGED <<now, depVars, genVars, pipeVars, childVars, placeVars, attVars, cfVars, tagVars, secVars, memVars,
                   tt_tasks, tt_tags, tt_cursor, task_tags>>

\* The tags are grouped; the loop over the tasks begins.
TaskTagsStart ==
    /\ tt_pc = "start"
    /\ tt_tags # <<>>
    /\ tt_pc' = "loop"
    /\ UNCHANGED <<now, depVars, genVars, pipeVars, childVars, placeVars, attVars, cfVars, tagVars, secVars, memVars,
                   tt_tasks, tt_tags, tt_cursor, task_tags>>

\* One iteration of "for task in tasks" where _should_have_tags says no.
TagTaskSkipped ==
    /\ tt_pc = "loop"
    /\ tt_cursor <= Len(tt_tasks)
    /\ tt_cursor' = tt_cursor + 1
    /\ UNCHANGED <<now, depVars, genVars, pipeVars, childVars, placeVars, attVars, cfVars, tagVars, secVars, memVars,
                   tt_tasks, tt_tags, tt_pc, task_tags>>

\* One iteration of "for task in tasks" for a task that gets tags.  A Task
\* has no organization_id, so every tag is offered and org_id is that of the
\* first tag.
TagTask ==
    /\ tt_pc = "loop"
    /\ tt_cursor <= Len(tt_tasks)
    /\ LET tsk == tt_tasks[tt_cursor]
       IN \E relevant_tags \in GetRelevantTags(tsk, tt_tags,
                                               tt_tags[1].organization_id) :
            IF relevant_tags = <<>>
            THEN task_tags' = task_tags
            ELSE \E n \in SampleNumTags :
                   \E selected_tags \in
                        RandomSample(relevant_tags, Min2(n, Len(relevant_tags))) :
                     task_tags' = task_tags \o TaskTagsOf(tsk, selected_tags)
    /\ tt_cursor' = tt_cursor + 1
    /\ UNCHANGED <<now, depVars, genVars, pipeVars, childVars, placeVars, attVars, cfVars, tagVars, secVars, memVars,
                   tt_tasks, tt_tags, tt_pc>>

\* The loop is exhausted: generate returns task_tags.
TaskTagsReturn ==
    /\ tt_pc = "loop"
    /\ tt_cursor > Len(tt_tasks)
    /\ tt_pc' = "done"
    /\ UNCHANGED <<now, depVars, genVars, pipeVars, childVars, placeVars, attVars, cfVars, tagVars, secVars, memVars,
                   tt_tasks, tt_tags, tt_cursor, task_tags>>

\* The tags of the organization the model draws its tag lists from.
TagPool ==
    <<[name |-> <<"high", "priority">>], [name |-> <<"critical", "bug">>],
      [name |-> <<"backend">>]>>

\* Tag lists: none, each tag alone, and the pool from each end on.
TtTagLists ==
    {<<>>, TagPool, SubSeq(TagPool, 2, 3), SubSeq(TagPool, 1, 2)}
        \cup {<<TagPool[j]>> : j \in 1..Len(TagPool)}

\* Priority and name of the tasks handed in.
TtTaskChoices ==
    [priority : {<<"high">>, <<>>},
     name : {<<"fix", "urgent", "login", "bug">>, <<"weekly", "sync">>}]

InitTaskTags ==
    /\ now \in NowChoices
    /\ DepsIdle
    /\ GenIdle
    /\ PipeIdle
    /\ ChildIdle
    /\ PlaceIdle
    /\ AttIdle
    /\ CfIdle
    /\ TagIdle
    /\ SecIdle
    /\ MemIdle
    /\ \E n \in 1..MaxTtTasks :
         \E ts \in [1..n -> TtTaskChoices] :
           tt_tasks = [i \in 1..n |-> [task_id |-> i, priority |-> ts[i].priority,
                                       name |-> ts[i].name]]
    /\ \E tl \in TtTagLists :
         tt_tags = [i \in 1..Len(tl) |-> [tag_id |-> i, organization_id |-> 1,
                                          name |-> tl[i].name]]
    /\ tt_pc = "start"
    /\ tt_cursor = 1
    /\ task_tags = <<>>

NextTaskTags ==
    \/ TaskTagsNoTags
    \/ TaskTagsStart
    \/ TagTaskSkipped
    \/ TagTask
    \/ TaskTagsReturn

SpecTaskTags == InitTaskTags /\ [][NextTaskTags]_vars

(***************************************************************************)
(* Claims about the task-tag associations                                  *)
(***************************************************************************)
\* C25: with distinct task ids and distinct tag ids handed in, no
\* (task_id, tag_id) pair occurs twice in the returned collection, whether
\* the tags came from the task's priority and name or from the random
\* fallback.
C25_TaskTagPairsUnique ==
    \A j, k \in 1..Len(task_tags) :
        j # k => <<task_tags[j].task_id, task_tags[j].tag_id>>
                   # <<task_tags[k].task_id, task_tags[k].tag_id>>

\* generate has returned: the first task, whose priority and name both point
\* to the same tags, got two of them, and the second task, which matches no
\* tag, got two tags from the random fallback.
C25_Witness ==
    /\ tt_pc = "done"
    /\ Len(tt_tasks) = 2
    /\ tt_tasks[1].priority = <<"high">>
    /\ InName(<<"urgent">>, tt_tasks[1].name)
    /\ tt_tasks[2].priority = <<>>
    /\ tt_tasks[2].name = <<"weekly", "sync">>
    /\ Len(tt_tags) = 3
    /\ Cardinality({j \in 1..Len(task_tags) : task_tags[j].task_id = 1}) = 2
    /\ Cardinality({j \in 1..Len(task_tags) : task_tags[j].task_id = 2}) = 2

(***************************************************************************)
(* Further claims about DependencyGenerator                                *)
(***************************************************************************)
\* created_at of the tasks of a busy project: the last task has more
\* earlier tasks than a task can get dependencies.
BusyProjectCreatedAt ==
    <<now - Days(5), now - Days(4), now - Days(3), now - Days(2), now - Hours(2)>>

\* The generator is handed the tasks of that one project.
InitDepsBusy ==
    /\ now = Midnight(Today) + Hours(12)
    /\ tasks = [j \in 1..Len(BusyProjectCreatedAt) |->
                  [task_id |-> j, project_id |-> 1,
                   created_at |-> BusyProjectCreatedAt[j]]]
    /\ tasks_by_project = [p \in ProjectIds |-> <<>>]
    /\ project_order = <<>>
    /\ dep_pc = "start"
    /\ dep_cursor = <<1, 1>>
    /\ existing_deps = {}
    /\ dependencies = <<>>
    /\ GenIdle
    /\ PipeIdle
    /\ ChildIdle
    /\ RelIdle

\* DependencyGenerator.generate over the short lists and the busy project.
SpecDepsBusy == (InitDeps \/ InitDepsBusy) /\ [][NextDeps]_vars

\* The tasks that come before t in its project's list sorted by created_at.
NumEarlierTasks(t) ==
    LET project_tasks == tasks_by_project[TaskById(t).project_id]
    IN Cardinality({j \in 1..Len(project_tasks) :
                      \E i \in (j + 1)..Len(project_tasks) :
                         project_tasks[i].task_id = t})

\* The records that name t as the dependent task.
DependenciesOf(t) == {j \in 1..Len(dependencies) : dependencies[j].dependent_task_id = t}

\* C26: no (dependent_task_id, dependency_task_id) pair occurs twice, and a
\* task has at most min(3, number of earlier tasks of its project)
\* dependencies.
C26_DependencyPairsUniqueAndCapped ==
    /\ \A j, k \in 1..Len(dependencies) :
          j # k => <<dependencies[j].dependent_task_id, dependencies[j].dependency_task_id>>
                     # <<dependencies[k].dependent_task_id, dependencies[k].dependency_task_id>>
    /\ \A t \in TaskIds :
          Cardinality(DependenciesOf(t)) <= Min2(3, NumEarlierTasks(t))

\* A finished run of the busy project in which the task with four earlier
\* tasks has three dependencies and the task with two has two.
C26_Witness ==
    /\ dep_pc = "done"
    /\ \E t \in TaskIds : NumEarlierTasks(t) = 4 /\ Cardinality(DependenciesOf(t)) = 3
    /\ \E t \in TaskIds : NumEarlierTasks(t) = 2 /\ Cardinality(DependenciesOf(t)) = 2

(***************************************************************************)
(* Users, teams and tags of the organization                               *)
(***************************************************************************)
\* UserGenerator.generate: one user, once the organization exists.
GenerateUser ==
    /\ gen_pc = "teams"
    /\ user = NoEntity
    /\ \E created_at \in UserSampleCreatedAt(organization.created_at) :
         user' = [created_at |-> created_at]
    /\ UNCHANGED <<now, depVars, pipeVars, childVars, relVars, organization, team,
                   project, gen_pc, task, completion>>

\* TagGenerator.generate: one tag, after the teams and before the tasks.
GenerateTag ==
    /\ gen_pc = "projects"
    /\ org_tag = NoEntity
    /\ \E created_at \in TagSampleCreatedAt(organization.created_at) :
         org_tag' = [created_at |-> created_at]
    /\ UNCHANGED <<now, depVars, genVars, pipeVars, childVars, placeVars, attVars, cfVars, secVars, memVars,
                   ttVars>>

\* The stages of the run that stamp the organization and what belongs to it.
NextEntities ==
    \/ GenerateOrganization
    \/ GenerateUser
    \/ GenerateTeam
    \/ GenerateTag
    \/ Tick

SpecEntities == InitProjects /\ [][NextEntities]_vars

\* created_at lies between the organization's created_at and now.
WithinOrganizationAndNow(entity) ==
    entity # NoEntity =>
        /\ organization.created_at <= entity.created_at
        /\ entity.created_at <= now

\* C27: every user, team and tag is stamped no earlier than the
\* organization (now - 180 days at 08:00) and no later than now.
C27_EntitiesBetweenEpochAndNow ==
    /\ WithinOrganizationAndNow(user)
    /\ WithinOrganizationAndNow(team)
    /\ WithinOrganizationAndNow(org_tag)

\* Shortly after midnight: a user hired on the last of the 180 days at
\* 17:00, a team created with the organization, and a tag of the thirtieth
\* day.
C27_Witness ==
    /\ now = Midnight(Today) + 20 * 60
    /\ user # NoEntity
    /\ user.created_at = Midnight(Today - 1) + Hours(17)
    /\ team # NoEntity
    /\ team.created_at = organization.created_at
    /\ org_tag # NoEntity
    /\ org_tag.created_at = organization.created_at + Days(30) + Hours(9)

\* ---------------------------------------------------------------------------
\* CustomFieldGenerator (generators/custom_fields.py)
\*
\* Projects, teams, tasks, definitions and options are named by their index in
\* their list.  A definition keeps its project, name, type and position; an
\* option keeps its field and position; a value keeps its task, its field and
\* the option it names (None for a number or a text).  The created_at stamps
\* of definitions and values play no part in what names what and are left out.
\* ---------------------------------------------------------------------------
MaxCfTasks == 2

\* The fields a team's type adds to the candidates: the branch of the
\* substring tests that the team type takes.
TeamFields(team_type) ==
    CASE team_type \in {"Engineering", "Product"} -> SubSeq(engineering_fields, 1, 2)
      [] team_type = "Marketing" -> SubSeq(marketing_fields, 1, 2)
      [] team_type = "Sales" -> SubSeq(sales_fields, 1, 2)
      [] team_type = "Design" -> SubSeq(design_fields, 1, 1)
      [] OTHER -> <<>>

\* for field in extra: if field not in fields: fields.append(field)
RECURSIVE AppendMissing(_, _)
AppendMissing(fields, extra) ==
    IF extra = <<>> THEN fields
    ELSE AppendMissing(IF \E i \in 1..Len(fields) : fields[i] = Head(extra)
                       THEN fields
                       ELSE Append(fields, Head(extra)),
                       Tail(extra))

\* The list _get_fields_for_project samples from, once the team's fields have
\* been appended to it.
CandidateFields(table, project_type, team_type) ==
    AppendMissing(IF project_type \in DOMAIN table
                  THEN table[project_type]
                  ELSE SubSeq(common_fields, 1, 2),
                  TeamFields(team_type))

\* The table after the call.  For a known project type, fields is the very
\* list the table holds, so the appends land in the table; for an unknown
\* type it is a fresh slice of common_fields and the table is not touched.
TableAfterGetFields(table, project_type, team_type) ==
    IF project_type \in DOMAIN table
    THEN [table EXCEPT ![project_type] =
              CandidateFields(table, project_type, team_type)]
    ELSE table

\* random.sample(population, k): of the orderings it can return, the runs of
\* k consecutive elements at the two ends of the population are explored.
SampleRuns(population, k) ==
    {SubSeq(population, s, s + k - 1) : s \in RandEnds(1, Len(population) - k + 1)}

\* The lists of templates _get_fields_for_project can return.
GetFieldsForProject(table, project_type, team_type) ==
    LET fields == CandidateFields(table, project_type, team_type)
        most   == IF Len(fields) < 5 THEN Len(fields) ELSE 5
    IN  UNION {SampleRuns(fields, num_fields) : num_fields \in RandEnds(2, most)}

\* One pass of the loop over field_templates: the definition is appended and,
\* for an enum with options, so are its options, which are also filed under
\* the field in field_to_options.  A field without options has no entry
\* there, which reads as the empty list.
AddField(lists, project_id, template, position) ==
    LET field_id == Len(lists.definitions) + 1
        first    == Len(lists.enum_options)
        has_opts == template.field_type = "enum" /\ template.options > 0
        options  == IF has_opts
                    THEN [i \in 1..template.options |->
                             [option_id |-> first + i, field_id |-> field_id,
                              position |-> i - 1]]
                    ELSE <<>>
    IN  [definitions |->
             Append(lists.definitions,
                    [field_id |-> field_id, project_id |-> project_id,
                     name |-> template.name, field_type |-> template.field_type,
                     position |-> position]),
         enum_options |-> lists.enum_options \o options,
         field_to_options |->
             Append(lists.field_to_options,
                    [i \in 1..Len(options) |-> options[i].option_id])]

\* for position, template in enumerate(field_templates)
RECURSIVE AddFields(_, _, _, _)
AddFields(lists, project_id, field_templates, position) ==
    IF position >= Len(field_templates) THEN lists
    ELSE AddFields(AddField(lists, project_id, field_templates[position + 1], position),
                   project_id, field_templates, position + 1)

CfProject == cf_projects[cf_cursor]

\* team_dict.get(project.team_id) finds a team.
CfTeamKnown == CfProject.team_id \in 1..Len(cf_teams)

\* generate, one pass of the loop over projects for a project whose team is
\* known: the fields are chosen, which may change the table, and their
\* definitions and options are appended.
DefineProjectFields ==
    /\ cf_pc = "projects"
    /\ cf_cursor <= Len(cf_projects)
    /\ CfTeamKnown
    /\ LET project_type == CfProject.project_type
           team_type    == cf_teams[CfProject.team_id].team_type
       IN  /\ \E field_templates \in
                   GetFieldsForProject(fields_by_project_type, project_type, team_type) :
                 LET lists == AddFields([definitions |-> definitions,
                                         enum_options |-> enum_options,
                                         field_to_options |-> field_to_options],
                                        cf_cursor, field_templates, 0)
                 IN  /\ definitions' = lists.definitions
                     /\ enum_options' = lists.enum_options
                     /\ field_to_options' = lists.field_to_options
           /\ fields_by_project_type' =
                  TableAfterGetFields(fields_by_project_type, project_type, team_type)
    /\ cf_cursor' = cf_cursor + 1
    /\ UNCHANGED <<now, depVars, genVars, pipeVars, childVars, placeVars, attVars, secVars, memVars,
                   ttVars, tagVars, attVars, placeVars, cf_projects, cf_teams, cf_tasks, cf_pc,
                   cf_values>>

\* generate, one pass of the loop over projects for a project whose team is
\* not among the teams: if not team: continue.
SkipProjectWithoutTeam ==
    /\ cf_pc = "projects"
    /\ cf_cursor <= Len(cf_projects)
    /\ ~CfTeamKnown
    /\ cf_cursor' = cf_cursor + 1
    /\ UNCHANGED <<now, depVars, genVars, pipeVars, childVars, placeVars, attVars, secVars, memVars,
                   ttVars, tagVars, attVars, placeVars, cf_projects, cf_teams, cf_tasks,
                   fields_by_project_type, cf_pc, definitions, enum_options,
                   field_to_options, cf_values>>

\* generate, between the loops: the definitions are grouped by project.
GroupDefinitions ==
    /\ cf_pc = "projects"
    /\ cf_cursor > Len(cf_projects)
    /\ cf_pc' = "tasks"
    /\ cf_cursor' = 1
    /\ UNCHANGED <<now, depVars, genVars, pipeVars, childVars, placeVars, attVars, secVars, memVars,
                   ttVars, tagVars, attVars, placeVars, cf_projects, cf_teams, cf_tasks,
                   fields_by_project_type, definitions, enum_options,
                   field_to_options, cf_values>>

\* A definition list that is not grouped: the definitions of every project.
defs_of_any_project(project_id) == definitions

\* defs_by_project.get(project_id, [])
defs_by_project(project_id) ==
    SelectSeq(definitions, LAMBDA defn : defn.project_id = project_id)

\* A choice that can run one past the end of the list.
ChooseOptionPastEnd(option_ids, pick) ==
    IF pick = "first" THEN option_ids[1] ELSE option_ids[Len(option_ids)] + 1

\* random.choice(option_ids), at one end of the list or the other.
ChooseOption(option_ids, pick) ==
    IF pick = "first" THEN option_ids[1] ELSE option_ids[Len(option_ids)]

\* The values one pass of the loop over fields_to_fill appends: an enum field
\* gets a value naming one of its own options, and none at all when it has no
\* options; a number or text field gets a value that names no option.
RECURSIVE ValuesOf(_, _, _)
ValuesOf(task_id, fields_to_fill, pick) ==
    IF fields_to_fill = <<>> THEN <<>>
    ELSE LET field_def  == Head(fields_to_fill)
             option_ids == field_to_options[field_def.field_id]
             value ==
                 IF field_def.field_type = "enum"
                 THEN IF option_ids # <<>>
                      THEN << [task_id |-> task_id, field_id |-> field_def.field_id,
                               value_enum_option_id |-> ChooseOption(option_ids, pick)] >>
                      ELSE <<>>
                 ELSE << [task_id |-> task_id, field_id |-> field_def.field_id,
                          value_enum_option_id |-> None] >>
         IN  value \o ValuesOf(task_id, Tail(fields_to_fill), pick)

CfTaskDefs == defs_by_project(cf_tasks[cf_cursor].project_id)

\* generate, one pass of the loop over tasks that fills fields: between 60%
\* and all of the definitions of the task's project are sampled and each is
\* given a value.
FillTaskValues ==
    /\ cf_pc = "tasks"
    /\ cf_cursor <= Len(cf_tasks)
    /\ CfTaskDefs # <<>>
    /\ \E num_to_fill \in RandEnds((Len(CfTaskDefs) * 6) \div 10, Len(CfTaskDefs)) :
       \E fields_to_fill \in SampleRuns(CfTaskDefs, num_to_fill) :
       \E pick \in {"first", "last"} :
           cf_values' = cf_values \o ValuesOf(cf_cursor, fields_to_fill, pick)
    /\ cf_cursor' = cf_cursor + 1
    /\ UNCHANGED <<now, depVars, genVars, pipeVars, childVars, placeVars, attVars, secVars, memVars,
                   ttVars, tagVars, attVars, placeVars, cf_projects, cf_teams, cf_tasks,
                   fields_by_project_type, cf_pc, definitions, enum_options,
                   field_to_options>>

\* generate, one pass of the loop over tasks that fills nothing: the task's
\* project has no definitions, or the task is one of the 30% left without
\* values.
SkipTaskValues ==
    /\ cf_pc = "tasks"
    /\ cf_cursor <= Len(cf_tasks)
    /\ cf_cursor' = cf_cursor + 1
    /\ UNCHANGED <<now, depVars, genVars, pipeVars, childVars, placeVars, attVars, secVars, memVars,
                   ttVars, tagVars, attVars, placeVars, cf_projects, cf_teams, cf_tasks,
                   fields_by_project_type, cf_pc, definitions, enum_options,
                   field_to_options, cf_values>>

\* generate returns definitions, enum_options and values.
CustomFieldsReturn ==
    /\ cf_pc = "tasks"
    /\ cf_cursor > Len(cf_tasks)
    /\ cf_pc' = "done"
    /\ UNCHANGED <<now, depVars, genVars, pipeVars, childVars, placeVars, attVars, secVars, memVars,
                   ttVars, tagVars, attVars, placeVars, cf_projects, cf_teams, cf_tasks,
                   fields_by_project_type, cf_cursor, definitions, enum_options,
                   field_to_options, cf_values>>

\* The teams handed to generate: team 1 is an Engineering team and team 2 a
\* Marketing team.  A project naming team 3 names no team of the list.
CfTeams == << [team_type |-> "Engineering"], [team_type |-> "Marketing"] >>

CfProjectOf(project_type, team_id) ==
    [project_type |-> project_type, team_id |-> team_id]

\* The project lists handed to generate: two projects of one known type whose
\* teams differ, in both orders; a known and an unknown type; two projects of
\* an unknown type; and a project whose team is missing.
CfProjectLists ==
    { << CfProjectOf("bug_tracking", 1), CfProjectOf("bug_tracking", 2) >>,
      << CfProjectOf("bug_tracking", 2), CfProjectOf("bug_tracking", 1) >>,
      << CfProjectOf("ongoing", 2), CfProjectOf("kanban", 1) >>,
      << CfProjectOf("kanban", 1), CfProjectOf("kanban", 2) >>,
      << CfProjectOf("ongoing", 1), CfProjectOf("sprint", 3) >> }

\* The task lists handed to generate: each task belongs to one of the
\* projects.
CfTaskLists(projects) ==
    UNION {[1..n -> {[project_id |-> p] : p \in 1..Len(projects)}] : n \in 1..MaxCfTasks}

\* generate is entered with a freshly constructed generator.
InitCustomFields ==
    /\ now = Midnight(Today) + Hours(12)
    /\ DepsIdle
    /\ GenIdle
    /\ PipeIdle
    /\ ChildIdle
    /\ PlaceIdle
    /\ AttIdle
    /\ SecIdle
    /\ MemIdle
    /\ TtIdle
    /\ TagIdle
    /\ AttIdle
    /\ PlaceIdle
    /\ cf_projects \in CfProjectLists
    /\ cf_teams = CfTeams
    /\ cf_tasks \in CfTaskLists(cf_projects)
    /\ fields_by_project_type = FieldsByProjectTypeAsConstructed
    /\ cf_pc = "projects"
    /\ cf_cursor = 1
    /\ definitions = <<>>
    /\ enum_options = <<>>
    /\ field_to_options = <<>>
    /\ cf_values = <<>>

NextCustomFields ==
    \/ DefineProjectFields
    \/ SkipProjectWithoutTeam
    \/ GroupDefinitions
    \/ FillTaskValues
    \/ SkipTaskValues
    \/ CustomFieldsReturn

SpecCustomFields == InitCustomFields /\ [][NextCustomFields]_vars

\* ---------------------------------------------------------------------------
\* AttachmentGenerator.generate (generators/attachments.py): which task and
\* which user an attachment names.  Tasks and users are named by their index
\* in their list.
\* ---------------------------------------------------------------------------
MaxAttTasks == 2

\* _sample_num_attachments: random.choices([1, 2, 3, 4, 5], ...)
SampleNumAttachments == RandInt(1, 5)

\* The outcomes of "random.random() < 0.70" over the attachments of one task:
\* always true, always false, and alternating.
UploaderDraws(num_attachments) ==
    {[j \in 1..num_attachments |-> b] : b \in BOOLEAN}
        \cup {[j \in 1..num_attachments |-> j % 2 = 1]}

\* The uploader of one attachment: the assignee when there is one and the
\* draw says so, else the creator when there is one, else any user.
UploaderIds(tsk, users, assignee_drawn) ==
    IF tsk.assignee_id # None /\ assignee_drawn THEN {tsk.assignee_id}
    ELSE IF tsk.created_by # None THEN {tsk.created_by}
    ELSE {users[j].user_id : j \in 1..Len(users)}

\* The attachments of one task: for _ in range(num_attachments).
AttachmentsOf(tsk, users, draws) ==
    {[j \in 1..Len(draws) |-> [task_id |-> tsk.task_id, uploaded_by |-> ups[j]]] :
        ups \in {f \in [1..Len(draws) -> {users[j].user_id : j \in 1..Len(users)}] :
                    \A j \in 1..Len(draws) :
                        f[j] \in UploaderIds(tsk, users, draws[j])}}

\* generate, the early return: if not users: return [].
AttachmentsNoUsers ==
    /\ att_pc = "start"
    /\ att_users = <<>>
    /\ attachments' = <<>>
    /\ att_pc' = "done"
    /\ UNCHANGED <<now, depVars, genVars, pipeVars, childVars, placeVars, secVars, memVars,
                   ttVars, tagVars, cfVars, placeVars, att_tasks, att_users, att_cursor>>

\* generate, before the loop: attachments = [].
AttachmentsStart ==
    /\ att_pc = "start"
    /\ att_users # <<>>
    /\ attachments' = <<>>
    /\ att_cursor' = 1
    /\ att_pc' = "loop"
    /\ UNCHANGED <<now, depVars, genVars, pipeVars, childVars, placeVars, secVars, memVars,
                   ttVars, tagVars, cfVars, placeVars, att_tasks, att_users>>

\* One pass of the loop for a task that gets no attachments.
AttachTaskSkipped ==
    /\ att_pc = "loop"
    /\ att_cursor <= Len(att_tasks)
    /\ att_cursor' = att_cursor + 1
    /\ UNCHANGED <<now, depVars, genVars, pipeVars, childVars, placeVars, secVars, memVars,
                   ttVars, tagVars, cfVars, placeVars, att_tasks, att_users, att_pc,
                   attachments>>

\* One pass of the loop for a task that gets attachments.
AttachTask ==
    /\ att_pc = "loop"
    /\ att_cursor <= Len(att_tasks)
    /\ \E num_attachments \in SampleNumAttachments :
       \E draws \in UploaderDraws(num_attachments) :
       \E new \in AttachmentsOf(att_tasks[att_cursor], att_users, draws) :
           attachments' = attachments \o new
    /\ att_cursor' = att_cursor + 1
    /\ UNCHANGED <<now, depVars, genVars, pipeVars, childVars, placeVars, secVars, memVars,
                   ttVars, tagVars, cfVars, placeVars, att_tasks, att_users, att_pc>>

\* generate returns attachments.
AttachmentsReturn ==
    /\ att_pc = "loop"
    /\ att_cursor > Len(att_tasks)
    /\ att_pc' = "done"
    /\ UNCHANGED <<now, depVars, genVars, pipeVars, childVars, placeVars, secVars, memVars,
                   ttVars, tagVars, cfVars, placeVars, att_tasks, att_users, att_cursor,
                   attachments>>

\* The user lists handed to generate: none, or two users.
AttUserLists == { <<>>, << [user_id |-> 1], [user_id |-> 2] >> }

\* The tasks TaskGenerator builds from these users: created_by is one of
\* them, and so is assignee_id, which the Task model also allows to be None.
\* Without users there are no tasks.
AttTaskLists(users) ==
    LET ids == {users[j].user_id : j \in 1..Len(users)}
    IN  IF users = <<>> THEN {<<>>}
        ELSE UNION {{[i \in 1..n |-> [task_id |-> i,
                                       assignee_id |-> ts[i].assignee_id,
                                       created_by |-> ts[i].created_by]] :
                        ts \in [1..n -> [assignee_id : ids \cup {None},
                                         created_by : ids]]} :
                    n \in 1..MaxAttTasks}

InitAttachments ==
    /\ now = Midnight(Today) + Hours(12)
    /\ DepsIdle
    /\ GenIdle
    /\ PipeIdle
    /\ ChildIdle
    /\ PlaceIdle
    /\ SecIdle
    /\ MemIdle
    /\ TtIdle
    /\ TagIdle
    /\ CfIdle
    /\ PlaceIdle
    /\ att_users \in AttUserLists
    /\ att_tasks \in AttTaskLists(att_users)
    /\ att_pc = "start"
    /\ att_cursor = 0
    /\ attachments = <<>>

NextAttachments ==
    \/ AttachmentsNoUsers
    \/ AttachmentsStart
    \/ AttachTaskSkipped
    \/ AttachTask
    \/ AttachmentsReturn

SpecAttachments == InitAttachments /\ [][NextAttachments]_vars

\* ---------------------------------------------------------------------------
\* TaskGenerator.generate (generators/tasks.py): the section a task is put
\* in.  Projects and sections are named by their index in their list.
\* ---------------------------------------------------------------------------
MaxTgProjects == 2

\* word in s.name.lower(), over the section names of the templates.
NameHasWord(name, word) ==
    \/ word = "done" /\ name = "Done"
    \/ word = "progress" /\ name = "In Progress"
    \/ word = "backlog" /\ name = "Backlog"
    \/ word = "new" /\ name = "New"

\* next((s for s in project_sections if any word in s.name.lower()), default)
FirstSectionWith(project_sections, words, default) ==
    LET hits == {j \in 1..Len(project_sections) :
                    \E w \in words : NameHasWord(project_sections[j].name, w)}
    IN  IF hits = {} THEN default
        ELSE project_sections[CHOOSE j \in hits : \A k \in hits : j <= k]

\* "Assign to section based on status": the Done section or the last one for
\* a completed task, the In Progress section or the middle one for a task in
\* progress, the Backlog or New section or the first one otherwise.
ChooseSection(project_sections, status) ==
    CASE status = "completed" ->
           FirstSectionWith(project_sections, {"done"},
                            project_sections[Len(project_sections)])
      [] status = "in_progress" ->
           FirstSectionWith(project_sections, {"progress"},
                            project_sections[(Len(project_sections) \div 2) + 1])
      [] OTHER ->
           FirstSectionWith(project_sections, {"todo", "backlog", "new"},
                            project_sections[1])

active_projects ==
    SelectSeq(tg_projects, LAMBDA p : p.status \in {"active", "on_hold"})

\* sections_by_project.get(project.project_id, [])
sections_by_project(project_id) ==
    SelectSeq(tg_sections, LAMBDA s : s.project_id = project_id)

TgProject == active_projects[tg_cursor[1]]

\* One pass of the loop over active_projects for a project without sections:
\* "continue  # Skip projects without sections".
SkipProjectWithoutSections ==
    /\ tg_pc = "loop"
    /\ tg_cursor[1] <= Len(active_projects)
    /\ sections_by_project(TgProject.project_id) = <<>>
    /\ tg_cursor' = <<tg_cursor[1] + 1, 0>>
    /\ UNCHANGED <<now, depVars, genVars, pipeVars, childVars, secVars, memVars,
                   ttVars, tagVars, cfVars, attVars, tg_projects, tg_sections,
                   tasks_per_project, tg_pc, placed>>

\* One pass of "for _ in range(tasks_per_project)" up to the Task(...)
\* constructor: the task gets its project and a section of that project's
\* sections.
PlaceTask ==
    /\ tg_pc = "loop"
    /\ tg_cursor[1] <= Len(active_projects)
    /\ sections_by_project(TgProject.project_id) # <<>>
    /\ tg_cursor[2] < tasks_per_project
    /\ \E status \in TaskStatuses :
         placed' = [project_id |-> TgProject.project_id,
                    section_id |->
                        ChooseSection(sections_by_project(TgProject.project_id),
                                      status).section_id]
    /\ tg_pc' = "built"
    /\ UNCHANGED <<now, depVars, genVars, pipeVars, childVars, secVars, memVars,
                   ttVars, tagVars, cfVars, attVars, tg_projects, tg_sections,
                   tasks_per_project, tg_cursor>>

\* tasks.append(task); the inner loop moves on, and the outer loop when the
\* project has its tasks.
AppendPlacedTask ==
    /\ tg_pc = "built"
    /\ placed' = NoPlaced
    /\ tg_cursor' = IF tg_cursor[2] + 1 < tasks_per_project
                    THEN <<tg_cursor[1], tg_cursor[2] + 1>>
                    ELSE <<tg_cursor[1] + 1, 0>>
    /\ tg_pc' = "loop"
    /\ UNCHANGED <<now, depVars, genVars, pipeVars, childVars, secVars, memVars,
                   ttVars, tagVars, cfVars, attVars, tg_projects, tg_sections,
                   tasks_per_project>>

\* The loop over active_projects is exhausted: generate returns tasks.
TaskPlacementReturn ==
    /\ tg_pc = "loop"
    /\ tg_cursor[1] > Len(active_projects)
    /\ tg_pc' = "done"
    /\ UNCHANGED <<now, depVars, genVars, pipeVars, childVars, secVars, memVars,
                   ttVars, tagVars, cfVars, attVars, tg_projects, tg_sections,
                   tasks_per_project, tg_cursor, placed>>

TgProjectTypes == {"sprint", "bug_tracking", "campaign"}

\* The project lists handed to generate; at least one project is active.
TgProjectLists ==
    {ps \in UNION {[1..n -> [project_type : TgProjectTypes,
                             status : {"active", "completed"}]] :
                      n \in 1..MaxTgProjects} :
        \E j \in 1..Len(ps) : ps[j].status = "active"}

\* The sections SectionGenerator returns for the first n projects of a list:
\* project after project, the names of the project's template in order.
RECURSIVE SectionsFor(_, _)
SectionsFor(ps, n) ==
    IF n = 0 THEN <<>>
    ELSE LET before == SectionsFor(ps, n - 1)
             names  == GetSectionsForProject(ps[n].project_type)
         IN  before \o [j \in 1..Len(names) |->
                           [section_id |-> Len(before) + j, project_id |-> n,
                            name |-> names[j]]]

\* The number of tasks each active project gets.
TasksPerProjectChoices == {1, 2}

\* generate is entered with the sections of all the projects, or with those
\* of all but the last one.
InitTaskPlacement ==
    /\ now = Midnight(Today) + Hours(12)
    /\ DepsIdle
    /\ GenIdle
    /\ PipeIdle
    /\ ChildIdle
    /\ SecIdle
    /\ MemIdle
    /\ TtIdle
    /\ TagIdle
    /\ CfIdle
    /\ AttIdle
    /\ \E ps \in TgProjectLists :
         /\ tg_projects = [j \in 1..Len(ps) |->
                              [project_id |-> j, project_type |-> ps[j].project_type,
                               status |-> ps[j].status]]
         /\ tg_sections \in {SectionsFor(ps, Len(ps)), SectionsFor(ps, Len(ps) - 1)}
    /\ tasks_per_project \in TasksPerProjectChoices
    /\ tg_pc = "loop"
    /\ tg_cursor = <<1, 0>>
    /\ placed = NoPlaced

NextTaskPlacement ==
    \/ SkipProjectWithoutSections
    \/ PlaceTask
    \/ AppendPlacedTask
    \/ TaskPlacementReturn

SpecTaskPlacement == InitTaskPlacement /\ [][NextTaskPlacement]_vars

\* The generators whose records must stay inside one project, each run on its
\* own: tasks, dependencies and custom fields.
SpecSameProject ==
    (InitTaskPlacement \/ InitDeps \/ InitCustomFields)
        /\ [][NextTaskPlacement \/ NextDeps \/ NextCustomFields]_vars

\* The generators whose records name other records, each run on its own:
\* dependencies, attachments, custom fields and task tags.
InitReferences ==
    InitDeps \/ InitAttachments \/ InitCustomFields \/ InitTaskTags

NextReferences ==
    NextDeps \/ NextAttachments \/ NextCustomFields \/ NextTaskTags

SpecReferences == InitReferences /\ [][NextReferences]_vars

(***************************************************************************)
(* Claims about what the generated records name                            *)
(***************************************************************************)
\* The ids of the records of a list.
IdsOf(list, key) == {list[j][key] : j \in 1..Len(list)}

\* C28: every foreign key of every generated TaskDependency, Attachment,
\* CustomFieldEnumOption, CustomFieldValue and TaskTag is the id of a record
\* of the lists the generator was handed or has built itself: both tasks of a
\* dependency are tasks, the task and the uploader of an attachment are a
\* task and a user, the field of an option is a definition, the task, the
\* field and the option (when set) of a value are a task, a definition and
\* an option, and the task and the tag of a task tag are a task and a tag.
C28_ForeignKeysNameExistingRecords ==
    /\ \A j \in 1..Len(dependencies) :
          /\ dependencies[j].dependent_task_id \in IdsOf(tasks, "task_id")
          /\ dependencies[j].dependency_task_id \in IdsOf(tasks, "task_id")
    /\ \A j \in 1..Len(attachments) :
          /\ attachments[j].task_id \in IdsOf(att_tasks, "task_id")
          /\ attachments[j].uploaded_by \in IdsOf(att_users, "user_id")
    /\ \A j \in 1..Len(enum_options) :
          enum_options[j].field_id \in IdsOf(definitions, "field_id")
    /\ \A j \in 1..Len(cf_values) :
          /\ cf_values[j].task_id \in 1..Len(cf_tasks)
          /\ cf_values[j].field_id \in IdsOf(definitions, "field_id")
          /\ cf_values[j].value_enum_option_id # None =>
                cf_values[j].value_enum_option_id \in IdsOf(enum_options, "option_id")
    /\ \A j \in 1..Len(task_tags) :
          /\ task_tags[j].task_id \in IdsOf(tt_tasks, "task_id")
          /\ task_tags[j].tag_id \in IdsOf(tt_tags, "tag_id")

\* The custom-field generator has returned values of which one names the
\* last option of the last enum field and another names no option.
C28_Witness ==
    /\ cf_pc = "done"
    /\ \E j \in 1..Len(cf_values) :
          cf_values[j].value_enum_option_id = Len(enum_options)
    /\ \E j \in 1..Len(cf_values) : cf_values[j].value_enum_option_id = None

\* C29: references stay inside one project: the section of a task is a
\* section of the task's project; both tasks of a dependency have the same
\* project; the field of a custom field value is a definition of the
\* project of the value's task, and the option of the value, when set, is an
\* option of that same field.
C29_ReferencesStayInsideProject ==
    /\ tg_pc = "built" =>
          tg_sections[placed.section_id].project_id = placed.project_id
    /\ \A j \in 1..Len(dependencies) :
          tasks[dependencies[j].dependent_task_id].project_id
              = tasks[dependencies[j].dependency_task_id].project_id
    /\ \A j \in 1..Len(cf_values) :
          /\ definitions[cf_values[j].field_id].project_id
                = cf_tasks[cf_values[j].task_id].project_id
          /\ cf_values[j].value_enum_option_id # None =>
                enum_options[cf_values[j].value_enum_option_id].field_id
                    = cf_values[j].field_id

\* A task of the second project has values although the first project has
\* definitions too, and one of its values names an option.
C29_Witness ==
    /\ cf_pc = "done"
    /\ \E j \in 1..Len(definitions) : definitions[j].project_id = 1
    /\ \E j \in 1..Len(cf_values) :
          /\ cf_tasks[cf_values[j].task_id].project_id = 2
          /\ cf_values[j].value_enum_option_id # None

\* C30: choosing the fields of a project leaves the generator's table of
\* candidate fields per project type as it was, so that the candidates of a
\* project depend on its own project type and team type only and not on the
\* projects handled before it.
C30_GetFieldsLeavesTableUnchanged ==
    [][fields_by_project_type' = fields_by_project_type]_vars

====
